---- MODULE Spec2Model ----
(***************************************************************************)
(* State-machine model of mcp-codegen's Protocol Client                    *)
(* (src/src/mcp_codegen/client.py) together with the transport prober it   *)
(* calls (src/src/mcp_codegen/codegen.py, detect_transport), the schema    *)
(* fetcher (codegen.py, fetch_schema and _fetch_http_post) and the two     *)
(* helpers of src/src/mcp_codegen/utils.py, and the code runner            *)
(* (src/src/mcp_codegen/runner: the capture buffer, one runner invocation *)
(* from cli._run to the exit code, apply_limits, run_async, the Scrubber  *)
(* with scrub_text and scrub_dict, and the Logger).  Each component has   *)
(* its own specification (Spec/SpecSeq, SpecDetect, SpecFetch, SpecSse,   *)
(* SpecMerge, SpecBuf, SpecRun, SpecLimits, SpecAsync, SpecText,          *)
(* SpecScrub, SpecLog) over its own variables; the other components then  *)
(* stay as entered.                                                        *)
(*                                                                         *)
(* Granularity: the Client is asyncio code, so everything between two      *)
(* network awaits is one atomic step.  detect_transport is synchronous     *)
(* (blocking httpx.Client), hence the probe never yields to other tasks.   *)
(* Time is counted in tenths of a time unit (0.3 is 3).                    *)
(* The caller-supplied header map (Client.headers) is taken to hold        *)
(* neither an Mcp-Session-Id nor an mcp-protocol-version entry.            *)
(***************************************************************************)
EXTENDS Integers, Sequences, FiniteSets, TLC

\* ---------------------------------------------------------------- bounds
NumTasks == 2
MaxCalls == 2
MaxRetries == 3
ConcRetries == 1
MaxTools == 1
MaxFrames == 2

\* TruncatedStringIO: largest max_size, longest text written, most writes.
MaxSize == 3
MaxText == 2
MaxWrites == 3

\* Runner: most writes of the user code to its two streams.
MaxPrints == 2

\* scrub_dict: longest list among the values.
MaxItems == 1

\* scrub_text: most literals in a text.
MaxParts == 2

Tasks == 1..NumTasks

\* ------------------------------------------------------ program constants
MCP_PROTOCOL_VERSION == "2025-06-18"
InitializeId == 1
ToolsCallId == 2
BackoffBaseTenths == 3
DefaultErrorCode == -32000

\* ----------------------------------------------------------------- values
NoneT == "none"
Transport == {"streamable-http", "sse", "post"}
Hints == {"auto"} \cup Transport

Absent == "absent"
NoSession == [src |-> "none", n |-> 0]
ServerSession == [src |-> "server", n |-> 0]
Minted(k) == [src |-> "minted", n |-> k]

NoInit == [set |-> FALSE, protocol_version |-> Absent, server_info |-> Absent]
NoHeaders == [set |-> FALSE, version |-> Absent, session |-> NoSession]

NoOutcome ==
  [kind |-> "none", exc |-> "", cause |-> "", value |-> "",
   code |-> 0, message |-> "", data |-> ""]
Returned(v) == [NoOutcome EXCEPT !.kind = "returned", !.value = v]
Raised(e, c) == [NoOutcome EXCEPT !.kind = "raised", !.exc = e, !.cause = c]

\* --------------------------------------------- what the server may answer
Resp(s, ct) == [kind |-> "resp", status |-> s, sse |-> ct]
NetErr == [kind |-> "err", status |-> 0, sse |-> FALSE]

HeadMcpOutcomes == {Resp(200, TRUE), Resp(200, FALSE), Resp(405, FALSE), Resp(404, FALSE), NetErr}
PostProbeOutcomes == {Resp(200, TRUE), Resp(200, FALSE), NetErr}
HeadSseOutcomes == {Resp(200, TRUE), Resp(405, FALSE), Resp(501, FALSE), Resp(404, FALSE), NetErr}
GetSseOutcomes == {Resp(200, TRUE), Resp(200, FALSE), NetErr}
PostOutcomes == {Resp(200, FALSE), Resp(400, FALSE), Resp(404, FALSE), Resp(500, FALSE), NetErr}

Profiles ==
  [headMcp : HeadMcpOutcomes, postProbe : PostProbeOutcomes,
   headSse : HeadSseOutcomes, getSse : GetSseOutcomes, post : PostOutcomes]

TransportErrors == {"ConnectError", "ReadTimeout"}

RpcErrors ==
  { [code |-> -32602, message |-> "Invalid params", data |-> "detail",
     has |-> {"code", "message", "data"}],
    [code |-> 0, message |-> "", data |-> "None", has |-> {}] }
NoRpcError == [code |-> 0, message |-> "", data |-> "None", has |-> {"none"}]

\* An initialize response, after HTTP and body parsing:
\*   result    - a JSON-RPC result (protocolVersion / serverInfo may be absent)
\*   neither   - a document with neither result nor error
\*   rpcerr    - a JSON-RPC error field
\*   status    - an HTTP error status (raise_for_status)
\*   transport - connection error or timeout
\*   malformed - a body that does not parse as a JSON object
\*   badinfo   - a result whose serverInfo is not a map
InitResponses ==
  [kind : {"result"}, version : {Absent, "2024-11-05"},
   session : {NoSession, ServerSession}, info : {Absent, "srvinfo"},
   err : {"none"}]
  \cup
  [kind : {"neither", "rpcerr", "status", "malformed", "badinfo"}, version : {Absent},
   session : {NoSession}, info : {Absent}, err : {"none"}]
  \cup
  [kind : {"transport"}, version : {Absent}, session : {NoSession},
   info : {Absent}, err : TransportErrors]

CallResponses ==
  [kind : {"result"}, value : {"r1"}, rpc : {NoRpcError}, err : {"none"}]
  \cup [kind : {"neither", "status", "malformed"}, value : {"None"}, rpc : {NoRpcError}, err : {"none"}]
  \cup [kind : {"rpcerr"}, value : {"None"}, rpc : RpcErrors, err : {"none"}]
  \cup [kind : {"transport"}, value : {"None"}, rpc : {NoRpcError}, err : TransportErrors]

\* ------------------------------------------------------------------ state
VARIABLES
  transport,   \* Client._transport (NoneT while unset)
  init,        \* Client._init (InitializeCache, NoInit while unset)
  http,        \* Client._http is not None
  stored,      \* Client._headers, written by _initialize
  retries,     \* Client._retries
  pc,          \* per task: idle, await_init, await_call, sleeping, done
  op,          \* per task: the operation the task is inside
  hint,        \* per task: transport_hint of the running ensure_ready
  attempt,     \* per task: loop variable of call_tool's retry loop
  last_error,  \* per task: call_tool's last_error
  outcome,     \* per task: how the invocation ended
  waits,       \* per task: the delays slept by this invocation, in order
  hist,        \* per task: the kinds of the tools/call responses received
  lastResp,    \* per task: the latest tools/call response received
  initResp,    \* per task: the initialize response this invocation received
  initReqs,    \* per task: initialize requests sent by this invocation
  callReqs,    \* per task: tools/call requests sent by this invocation
  callHdr,     \* per task: call_tool's local headers map
  sent,        \* every JSON-RPC request of the Client, in sending order
  started,     \* invocations begun so far
  minted,      \* uuid4 values drawn so far
  probes,      \* runs of detect_transport so far
  nResolved,   \* assignments to Client._transport so far
  nInit,       \* assignments to Client._init so far
  det,         \* one run of detect_transport: position, requests made, result
  fs,          \* one run of fetch_schema: position, attempts, requests, result
  sse,         \* one run of read_first_sse_event: the stream, how far it was read
  hd,          \* one call of ensure_accept_headers: argument and return value
  tb,          \* a TruncatedStringIO: its fields and everything written to it
  rn,          \* one runner invocation, from the run command to the exit code
  sd,          \* one call of Scrubber.scrub_dict: argument and return value
  tx,          \* one call of Scrubber.scrub_text: argument and return value
  lm,          \* one call of apply_limits: the setrlimit calls made and what was printed
  lg,          \* one call of Logger._log: arguments and the line written
  ra           \* one call of run_async: its argument, where it was run, its outcome

clientVars ==
  <<transport, init, http, stored, retries, pc, op, hint, attempt, last_error,
    outcome, waits, hist, lastResp, initResp, initReqs, callReqs, callHdr, sent, started,
    minted, probes, nResolved, nInit>>

vars == <<clientVars, det, fs, sse, hd, tb, rn, sd, tx, lm, lg, ra>>

\* What the steps of one component leave alone: the other components.
clientRest == <<det, fs, sse, hd, tb, rn, sd, tx, lm, lg, ra>>

detRest == <<clientVars, fs, sse, hd, tb, rn, sd, tx, lm, lg, ra>>

fetchRest == <<clientVars, det, sse, hd, tb, rn, sd, tx, lm, lg, ra>>

sseRest == <<clientVars, det, fs, hd, tb, rn, sd, tx, lm, lg, ra>>

hdRest == <<clientVars, det, fs, sse, tb, rn, sd, tx, lm, lg, ra>>

bufRest == <<clientVars, det, fs, sse, hd, rn, sd, tx, lm, lg, ra>>

runRest == <<clientVars, det, fs, sse, hd, tb, sd, tx, lm, lg, ra>>

scrubRest == <<clientVars, det, fs, sse, hd, tb, rn, tx, lm, lg, ra>>

textRest == <<clientVars, det, fs, sse, hd, tb, rn, sd, lm, lg, ra>>

limitsRest == <<clientVars, det, fs, sse, hd, tb, rn, sd, tx, lg, ra>>

logRest == <<clientVars, det, fs, sse, hd, tb, rn, sd, tx, lm, ra>>

asyncRest == <<clientVars, det, fs, sse, hd, tb, rn, sd, tx, lm, lg>>


NoCallResp == [kind |-> "none", value |-> "None", rpc |-> NoRpcError, err |-> "none"]

NoInitResp ==
  [kind |-> "none", version |-> Absent, session |-> NoSession, info |-> Absent,
   err |-> "none"]

\* The state after Client(base_url, retries=n) for some n of R.
Constructed(R) ==
  /\ transport = NoneT
  /\ init = NoInit
  /\ http = FALSE
  /\ stored = NoHeaders
  /\ retries \in R
  /\ pc = [t \in Tasks |-> "idle"]
  /\ op = [t \in Tasks |-> "none"]
  /\ hint = [t \in Tasks |-> "auto"]
  /\ attempt = [t \in Tasks |-> 0]
  /\ last_error = [t \in Tasks |-> "None"]
  /\ outcome = [t \in Tasks |-> NoOutcome]
  /\ waits = [t \in Tasks |-> <<>>]
  /\ hist = [t \in Tasks |-> <<>>]
  /\ lastResp = [t \in Tasks |-> NoCallResp]
  /\ initResp = [t \in Tasks |-> NoInitResp]
  /\ initReqs = [t \in Tasks |-> 0]
  /\ callReqs = [t \in Tasks |-> 0]
  /\ callHdr = [t \in Tasks |-> NoHeaders]
  /\ sent = <<>>
  /\ started = 0
  /\ minted = 0
  /\ probes = 0
  /\ nResolved = 0
  /\ nInit = 0

\* detect_transport has been entered and has made no request yet.
ProberEntered == det = [pc |-> "head_mcp", outs |-> <<>>, result |-> "none"]

\* A tool as fetch_schema hands it out.  A field the object does not have
\* is Absent (NoSchema for a schema): the Tool objects built by fetch_schema
\* have name, description and input_schema; the mcp library's Tool objects
\* have name, description (None unless the server gave one) and inputSchema.
NoneValue == "None"

NoSchema ==
  [present |-> FALSE, properties |-> Absent, required |-> Absent, type |-> Absent]

RawSchemas ==
  [present : {TRUE}, properties : {Absent, "props"}, required : {Absent, "reqd"},
   type : {Absent, "object"}]

\* A tool record of a tools/list result, as JSON.
RawTools ==
  [name : {"t"}, description : {Absent, "descr"},
   inputSchema : {NoSchema} \cup RawSchemas]

NoTools == [path |-> "none", tools |-> <<>>]

NoFetchResp ==
  [kind |-> "none", version |-> Absent, session |-> NoSession, err |-> "none"]

\* fetch_schema has been called and has not run yet.
FetchEntered ==
  fs = [pc |-> "start", arg |-> "auto", detected |-> NoneT, cands |-> <<>>,
        idx |-> 0, tried |-> {}, attempts |-> <<>>, conn |-> "none",
        postReqs |-> <<>>, initResp |-> NoFetchResp, minted |-> 0,
        outcome |-> NoOutcome, returned |-> NoTools]

\* read_first_sse_event(response) has been called on a stream that will
\* deliver the frames fr, followed by an unterminated data line if tl.
NoResult == [kind |-> "none", value |-> <<>>]

ReaderEntered(fr, tl) ==
  sse = [frames |-> fr, tail |-> tl, pos |-> 0, prev |-> 0, pc |-> "reading",
         chunks |-> 0, result |-> NoResult]

\* A header map: a function from the names it holds to their values.
EmptyMap == [k \in {} |-> <<>>]

\* ensure_accept_headers(h) has been called; none says that h is None.
MergeCalled(h, none) ==
  hd = [arg |-> h, none |-> none, pc |-> "called", result |-> EmptyMap,
        after |-> h]

\* TruncatedStringIO(max_size = B) has been constructed.  written, text,
\* returned and writes are history: the concatenation of every text written,
\* the last argument of write, what the last write returned (0 before any)
\* and the number of writes.
BufferConstructed(B) ==
  tb = [max_size |-> B, buffer |-> <<>>, size |-> 0, written |-> <<>>,
        text |-> <<>>, returned |-> 0, writes |-> 0]

\* A text as the runner model sees it: its length, and whether it holds an
\* e-mail address, SSN or card number as written by the user code.
NoText == [len |-> 0, pii |-> FALSE]

\* A capture buffer by lengths: TruncatedStringIO's size, the length of
\* getvalue(), the markers appended, and whether a written pattern is held.
NewCapture == [size |-> 0, len |-> 0, markers |-> 0, pii |-> FALSE]

NoExecutionResult ==
  [present |-> FALSE, status |-> "none", stdout |-> NoText,
   stderr |-> NoText, usage |-> FALSE]

NoEnding == [kind |-> "none", msg |-> NoText, code |-> 0]

\* called: apply_limits has run; applied: it has set the limits.
NoLimits == [called |-> FALSE, applied |-> FALSE, cpu |-> 0, as |-> 0]

NoOptions ==
  [cpu_seconds |-> 0, memory_mb |-> 0, disable_network |-> FALSE,
   seccomp |-> FALSE, firejail |-> FALSE]

\* Nothing has been run yet.
RunnerIdle ==
  rn = [pc |-> "idle", opts |-> NoOptions, platform |-> "linux",
        argv |-> {}, args |-> NoOptions, limits |-> NoLimits,
        network_disabled |-> FALSE, out |-> NewCapture, err |-> NewCapture,
        prints |-> 0, executed |-> FALSE, ending |-> NoEnding,
        result |-> NoExecutionResult, raised |-> "none",
        printed |-> NoExecutionResult, exit_code |-> 0]

\* The arguments of apply_limits nothing has been called with yet.
NoLimitArgs ==
  [cpu_seconds |-> 0, max_memory_mb |-> 0, max_files |-> 0,
   max_processes |-> 0]

\* apply_limits(args) has been called on a platform.  set is the limits
\* set so far with their values, printed the lines written to stderr, error
\* the exception the warning reports.
LimitsCalled(args, platform) ==
  lm = [pc |-> "called", args |-> args, platform |-> platform, next |-> 1,
        set |-> {}, printed |-> <<>>, error |-> "none", raised |-> "none"]

\* The text made of the given literals with a space between them.
RECURSIVE TextOf(_)
TextOf(parts) ==
  IF parts = <<>> THEN <<>>
  ELSE IF Len(parts) = 1 THEN Head(parts).tokens
  ELSE Head(parts).tokens \o <<" ">> \o TextOf(Tail(parts))

\* Scrubber(level).scrub_text(text) has been called, text being made of
\* parts.
TextCalled(level, parts) ==
  tx = [pc |-> "called", level |-> level, parts |-> parts,
        arg |-> TextOf(parts), result |-> <<>>]

\* Scrubber(level).scrub_dict(data) has been called.
ScrubCalled(level, data) ==
  sd = [pc |-> "called", level |-> level, arg |-> data, result |-> EmptyMap]

\* Logger._log(level, message, **kwargs) has been called.
LogCalled(message, kwargs) ==
  lg = [pc |-> "called", message |-> message, kwargs |-> kwargs,
        safe_message |-> <<>>, safe_kwargs |-> EmptyMap]

\* What an execution of run_async's argument does, and what run_async
\* hands to its caller: a value returned or an exception raised.  which
\* tells one exception object from another of the same type.
Ends(kind, type, which) == [kind |-> kind, type |-> type, which |-> which]

NotEnded == Ends("none", "", "")

\* run_async(coro_or_fn) has been called: what the argument is, whether an
\* event loop is running in the caller's thread, and what an execution of
\* the argument does.  starts counts the executions, where says how the
\* last one was run.
AsyncCalled(arg, loop_running, body) ==
  ra = [pc |-> "called", arg |-> arg, loop_running |-> loop_running,
        body |-> body, starts |-> 0, where |-> "nowhere",
        future |-> NotEnded, outcome |-> NotEnded]

\* The runner-side components before anything has run.
RunnerSideEntered ==
  /\ BufferConstructed(0)
  /\ RunnerIdle
  /\ LimitsCalled(NoLimitArgs, "linux")
  /\ ScrubCalled("basic", EmptyMap)
  /\ TextCalled("basic", <<>>)
  /\ LogCalled(<<>>, EmptyMap)
  /\ AsyncCalled("function", FALSE, NotEnded)

\* The components a specification does not run stay as they are here.
OthersEntered ==
  /\ ProberEntered
  /\ FetchEntered
  /\ ReaderEntered(<<>>, FALSE)
  /\ MergeCalled(EmptyMap, TRUE)
  /\ RunnerSideEntered

Init == Constructed(0..ConcRetries) /\ OthersEntered

InitSeq == Constructed(0..MaxRetries) /\ OthersEntered

\* ------------------------------------------------------ transport prober
EventStream200(r) == r.kind = "resp" /\ r.status = 200 /\ r.sse

\* Step 1 of detect_transport: HEAD /mcp, on 405 a POST initialize probe.
ProbeStreamable(p) ==
  /\ p.headMcp.kind = "resp"
  /\ \/ EventStream200(p.headMcp)
     \/ /\ p.headMcp.status = 405
        /\ EventStream200(p.postProbe)

\* Step 2 of detect_transport: HEAD /sse, on 405/501 a short GET.
ProbeSse(p) ==
  /\ p.headSse.kind = "resp"
  /\ \/ EventStream200(p.headSse)
     \/ /\ p.headSse.status \in {405, 501}
        /\ EventStream200(p.getSse)

\* Step 3 of detect_transport: plain POST probe.
ProbePost(p) ==
  /\ p.post.kind = "resp"
  /\ p.post.status \in {200, 400, 401, 403, 415, 422}

detect_transport(p) ==
  IF ProbeStreamable(p) THEN "streamable-http"
  ELSE IF ProbeSse(p) THEN "sse"
  ELSE IF ProbePost(p) THEN "http-post"
  ELSE "unknown"

transport_map(d) ==
  CASE d = "streamable-http" -> "streamable-http"
    [] d = "sse" -> "sse"
    [] d = "http-post" -> "post"
    [] OTHER -> "post"

\* Client._probe_transport: the transport, or the error it raises.
probe_transport(h, p) ==
  IF h = "auto"
  THEN IF detect_transport(p) = "unknown"
       THEN "TransportProbeError"
       ELSE transport_map(detect_transport(p))
  ELSE h

\* ------------------------------------------------------ Client._initialize
\* The initialize request: payload id and the headers built for it.
InitializeRequest ==
  [method |-> "initialize", id |-> InitializeId, session |-> NoSession,
   version |-> MCP_PROTOCOL_VERSION]

\* Mutant of NegotiatedVersion: the server's protocolVersion is ignored.
NegotiatedVersion_client_only(r) == MCP_PROTOCOL_VERSION

\* result.get("protocolVersion", MCP_PROTOCOL_VERSION)
NegotiatedVersion(r) ==
  IF r.version = Absent THEN MCP_PROTOCOL_VERSION ELSE r.version

\* The Mcp-Session-Id stored after the handshake: the server's, else uuid4.
SessionHeader(r, k) ==
  IF r.session # NoSession THEN r.session ELSE Minted(k)

\* dict(result.get("serverInfo", {}))
ServerInfo(r) == IF r.info = Absent THEN "empty" ELSE r.info

\* The responses on which _initialize returns an InitializeCache.
InitializeSucceeds(r) == r.kind \in {"result", "neither"}

\* Mutant of InitializeError: HTTP-layer errors are not wrapped.
InitializeError_unwrapped(r) ==
  CASE r.kind = "rpcerr" -> Raised("VersionNegotiationError", "")
    [] r.kind = "status" -> Raised("HTTPStatusError", "")
    [] r.kind = "transport" -> Raised(r.err, "")
    [] r.kind = "malformed" -> Raised("JSONDecodeError", "")
    [] r.kind = "badinfo" -> Raised("TypeError", "")
    [] OTHER -> NoOutcome

\* The exception _initialize raises on the other responses.
InitializeError(r) ==
  CASE r.kind = "rpcerr" -> Raised("VersionNegotiationError", "")
    [] r.kind = "status" -> Raised("VersionNegotiationError", "HTTPStatusError")
    [] r.kind = "transport" -> Raised("VersionNegotiationError", r.err)
    [] r.kind = "malformed" -> Raised("JSONDecodeError", "")
    [] r.kind = "badinfo" -> Raised("TypeError", "")
    [] OTHER -> NoOutcome

\* ---------------------------------------------------------- Client.call_tool
\* headers = ensure_accept_headers(self.headers), plus the cached version.
CallHeaders(i) ==
  [set |-> TRUE,
   version |-> IF i.set THEN i.protocol_version ELSE Absent,
   session |-> NoSession]

CallRequest(h) ==
  [method |-> "tools/call", id |-> ToolsCallId, session |-> h.session,
   version |-> h.version]

\* Mutant of Retryable: JSON-RPC errors go round the retry loop too.
Retryable_rpc_errors_too(r) == r.kind \in {"transport", "rpcerr"}

\* except (httpx.TransportError, httpx.ReadError)
Retryable(r) == r.kind = "transport"

\* Mutant of ShouldSleep: the delay is also waited after the last attempt.
ShouldSleep_after_last(a, n) == a <= n

\* if attempt < self._retries
ShouldSleep(a, n) == a < n

\* Mutant of BackoffTenths: the delay grows linearly instead of doubling.
BackoffTenths_linear(a) == BackoffBaseTenths * (a + 1)

\* wait_time = 0.3 * (2 ** attempt), in tenths
BackoffTenths(a) == BackoffBaseTenths * 2^a

ErrCode(e) == IF "code" \in e.has THEN e.code ELSE DefaultErrorCode
ErrMessage(e) == IF "message" \in e.has THEN e.message ELSE "unknown error"
ErrData(e) == IF "data" \in e.has THEN e.data ELSE "None"

RaisedJSONRPCError(e) ==
  [Raised("JSONRPCError", "") EXCEPT
     !.code = ErrCode(e), !.message = ErrMessage(e), !.data = ErrData(e)]

\* How call_tool ends on a response that does not go round the loop again.
CallResult(r) ==
  CASE r.kind = "result" -> Returned(r.value)
    [] r.kind = "neither" -> Returned("None")
    [] r.kind = "rpcerr" -> RaisedJSONRPCError(r.rpc)
    [] r.kind = "status" -> Raised("HTTPStatusError", "")
    [] r.kind = "malformed" -> Raised("JSONDecodeError", "")
    [] OTHER -> NoOutcome

\* ---------------------------------------------------------------- actions
AnyProfile ==
  [headMcp |-> NetErr, postProbe |-> NetErr, headSse |-> NetErr,
   getSse |-> NetErr, post |-> NetErr]

\* Mutant of Resolve: an explicit hint overrides the cached transport.
Resolve_hint_overrides(h, p) ==
  IF h # "auto" THEN h
  ELSE IF transport = NoneT THEN probe_transport(h, p) ELSE transport

\* ensure_ready's first stage: the cached transport, else what the probe
\* gives (a transport to cache, or the error it raises).
Resolve(h, p) ==
  IF transport = NoneT THEN probe_transport(h, p) ELSE transport

\* The part of an invocation from its entry up to its first network await:
\* ensure_ready's probe and, if the session is unset, sending initialize;
\* for call_tool on a ready Client, sending the first tools/call.
Begin(t, o, h) ==
  /\ pc[t] \in {"idle", "done"}
  /\ started < MaxCalls
  /\ started' = started + 1
  /\ op' = [op EXCEPT ![t] = o]
  /\ hint' = [hint EXCEPT ![t] = h]
  /\ attempt' = [attempt EXCEPT ![t] = 0]
  /\ last_error' = [last_error EXCEPT ![t] = "None"]
  /\ waits' = [waits EXCEPT ![t] = <<>>]
  /\ hist' = [hist EXCEPT ![t] = <<>>]
  /\ lastResp' = [lastResp EXCEPT ![t] = NoCallResp]
  /\ initResp' = [initResp EXCEPT ![t] = NoInitResp]
  /\ \E p \in (IF transport = NoneT /\ h = "auto" THEN Profiles ELSE {AnyProfile}) :
       LET tr == Resolve(h, p) IN
       /\ probes' = IF transport = NoneT /\ h = "auto" THEN probes + 1 ELSE probes
       /\ IF tr = "TransportProbeError"
          THEN /\ pc' = [pc EXCEPT ![t] = "done"]
               /\ outcome' = [outcome EXCEPT ![t] = Raised("TransportProbeError", "")]
               /\ initReqs' = [initReqs EXCEPT ![t] = 0]
               /\ callReqs' = [callReqs EXCEPT ![t] = 0]
               /\ callHdr' = [callHdr EXCEPT ![t] = NoHeaders]
               /\ UNCHANGED <<transport, nResolved, http, sent>>
          ELSE /\ transport' = tr
               /\ nResolved' = IF transport = NoneT THEN nResolved + 1 ELSE nResolved
               /\ IF ~init.set
                  THEN /\ http' = TRUE
                       /\ sent' = Append(sent, InitializeRequest)
                       /\ pc' = [pc EXCEPT ![t] = "await_init"]
                       /\ outcome' = [outcome EXCEPT ![t] = NoOutcome]
                       /\ initReqs' = [initReqs EXCEPT ![t] = 1]
                       /\ callReqs' = [callReqs EXCEPT ![t] = 0]
                       /\ callHdr' = [callHdr EXCEPT ![t] = NoHeaders]
                  ELSE IF o = "ensure_ready"
                  THEN /\ pc' = [pc EXCEPT ![t] = "done"]
                       /\ outcome' = [outcome EXCEPT ![t] = Returned("None")]
                       /\ initReqs' = [initReqs EXCEPT ![t] = 0]
                       /\ callReqs' = [callReqs EXCEPT ![t] = 0]
                       /\ callHdr' = [callHdr EXCEPT ![t] = NoHeaders]
                       /\ UNCHANGED <<http, sent>>
                  ELSE /\ http' = TRUE
                       /\ callHdr' = [callHdr EXCEPT ![t] = CallHeaders(init)]
                       /\ sent' = Append(sent, CallRequest(CallHeaders(init)))
                       /\ pc' = [pc EXCEPT ![t] = "await_call"]
                       /\ outcome' = [outcome EXCEPT ![t] = NoOutcome]
                       /\ initReqs' = [initReqs EXCEPT ![t] = 0]
                       /\ callReqs' = [callReqs EXCEPT ![t] = 1]
  /\ UNCHANGED <<init, stored, retries, minted, nInit>>
  /\ UNCHANGED clientRest

\* Client.ensure_ready(transport_hint=h), up to its first await.
ensure_ready(t, h) == Begin(t, "ensure_ready", h)

\* Client.call_tool(name, arguments), up to its first await; it calls
\* ensure_ready() with the default hint.
call_tool(t) == Begin(t, "call_tool", "auto")

\* The InitializeCache _initialize builds from a response.
Cache(r) ==
  [set |-> TRUE, protocol_version |-> NegotiatedVersion(r),
   server_info |-> ServerInfo(r)]

\* Mutant of InitAfter: the cache is stored before the error field is looked at.
InitAfter_before_error_check(r) ==
  IF r.kind \in {"result", "neither", "rpcerr"} THEN Cache(r) ELSE init

\* Client._init after the response: assigned only if _initialize returned.
InitAfter(r) == IF InitializeSucceeds(r) THEN Cache(r) ELSE init

\* Client._headers after the response: assigned once the error check and
\* the header extraction are past, before the InitializeCache is built.
StoredAfter(r) ==
  IF InitializeSucceeds(r) \/ r.kind = "badinfo"
  THEN [set |-> TRUE, version |-> NegotiatedVersion(r),
        session |-> SessionHeader(r, minted + 1)]
  ELSE stored

\* The initialize response arrives: the rest of _initialize and of
\* ensure_ready, and for call_tool the sending of the first tools/call.
initialize_response(t) ==
  /\ pc[t] = "await_init"
  /\ \E r \in InitResponses :
       /\ initResp' = [initResp EXCEPT ![t] = r]
       /\ init' = InitAfter(r)
       /\ stored' = StoredAfter(r)
       /\ minted' = IF StoredAfter(r) # stored /\ r.session = NoSession
                    THEN minted + 1 ELSE minted
       /\ nInit' = IF InitializeSucceeds(r) THEN nInit + 1 ELSE nInit
       /\ IF InitializeSucceeds(r)
          THEN IF op[t] = "ensure_ready"
               THEN /\ pc' = [pc EXCEPT ![t] = "done"]
                    /\ outcome' = [outcome EXCEPT ![t] = Returned("None")]
                    /\ UNCHANGED <<sent, callReqs, callHdr, http>>
               ELSE /\ http' = TRUE
                    /\ callHdr' = [callHdr EXCEPT ![t] = CallHeaders(init')]
                    /\ sent' = Append(sent, CallRequest(CallHeaders(init')))
                    /\ pc' = [pc EXCEPT ![t] = "await_call"]
                    /\ callReqs' = [callReqs EXCEPT ![t] = 1]
                    /\ UNCHANGED outcome
          ELSE /\ pc' = [pc EXCEPT ![t] = "done"]
               /\ outcome' = [outcome EXCEPT ![t] = InitializeError(r)]
               /\ UNCHANGED <<sent, callReqs, callHdr, http>>
  /\ UNCHANGED <<transport, retries, op, hint, attempt, last_error, waits, hist,
                 lastResp, initReqs, started, probes, nResolved>>
  /\ UNCHANGED clientRest

\* A tools/call response arrives: one pass of the retry loop's body after
\* the request, up to the return, the raise or the backoff sleep.
call_response(t) ==
  /\ pc[t] = "await_call"
  /\ \E r \in CallResponses :
       /\ hist' = [hist EXCEPT ![t] = Append(@, r.kind)]
       /\ lastResp' = [lastResp EXCEPT ![t] = r]
       /\ IF Retryable(r)
          THEN /\ last_error' = [last_error EXCEPT ![t] = r.err]
               /\ IF ShouldSleep(attempt[t], retries)
                  THEN /\ waits' = [waits EXCEPT ![t] = Append(@, BackoffTenths(attempt[t]))]
                       /\ pc' = [pc EXCEPT ![t] = "sleeping"]
                       /\ UNCHANGED outcome
                  ELSE /\ pc' = [pc EXCEPT ![t] = "done"]
                       /\ outcome' = [outcome EXCEPT ![t] = Raised("ToolCallError", last_error'[t])]
                       /\ UNCHANGED waits
          ELSE /\ pc' = [pc EXCEPT ![t] = "done"]
               /\ outcome' = [outcome EXCEPT ![t] = CallResult(r)]
               /\ UNCHANGED <<last_error, waits>>
  /\ UNCHANGED <<transport, init, http, stored, retries, op, hint, attempt,
                 initResp, initReqs, callReqs, callHdr, sent, started, minted,
                 probes, nResolved, nInit>>
  /\ UNCHANGED clientRest

\* asyncio.sleep(wait_time) is over: the next iteration sends its request.
backoff_elapsed(t) ==
  /\ pc[t] = "sleeping"
  /\ attempt' = [attempt EXCEPT ![t] = @ + 1]
  /\ sent' = Append(sent, CallRequest(callHdr[t]))
  /\ callReqs' = [callReqs EXCEPT ![t] = @ + 1]
  /\ pc' = [pc EXCEPT ![t] = "await_call"]
  /\ UNCHANGED <<transport, init, http, stored, retries, op, hint, last_error,
                 outcome, waits, hist, lastResp, initResp, initReqs, callHdr, started,
                 minted, probes, nResolved, nInit>>
  /\ UNCHANGED clientRest

\* Client.aclose(): closes and forgets the HTTP client, if there is one.
aclose(t) ==
  /\ pc[t] \in {"idle", "done"}
  /\ http
  /\ http' = FALSE
  /\ UNCHANGED <<transport, init, stored, retries, pc, op, hint, attempt,
                 last_error, outcome, waits, hist, lastResp, initResp, initReqs, callReqs,
                 callHdr, sent, started, minted, probes, nResolved, nInit>>
  /\ UNCHANGED clientRest

Step(t) ==
  \/ \E h \in Hints : ensure_ready(t, h)
  \/ call_tool(t)
  \/ initialize_response(t)
  \/ call_response(t)
  \/ backoff_elapsed(t)
  \/ aclose(t)

\* Coroutines of several tasks interleave at the awaits.
Next == \E t \in Tasks : Step(t)

Spec == Init /\ [][Next]_vars

\* One caller: each invocation is awaited before the next one is made.
NextSeq == Step(1)

SpecSeq == InitSeq /\ [][NextSeq]_vars

\* ------------------------------------- detect_transport, request by request
\* What one probe request can end in: a response (status, and whether its
\* content type contains text/event-stream) or an httpx.HTTPError.
ProbeStatuses == {200, 400, 401, 403, 404, 405, 415, 422, 500, 501}

TimedOut == [kind |-> "timeout", status |-> 0, sse |-> FALSE]

ProbeOutcomes ==
  {Resp(s, ct) : s \in ProbeStatuses, ct \in BOOLEAN} \cup {NetErr, TimedOut}

Ret(label) == [pc |-> "done", result |-> label]

Go(step) == [pc |-> step, result |-> "none"]

\* if r.status_code == 405: the POST initialize probe follows HEAD /mcp.
HeadMcpFallback(r) == r.status = 405

\* if r.status_code in (405, 501): the GET follows HEAD /sse.
HeadSseFallback(r) == r.status \in {405, 501}

\* Mutant of PostAccepted: any response at all counts as a POST endpoint.
PostAccepted_any_response(r) == r.kind = "resp"

\* if r.status_code in (200, 400, 401, 403, 415, 422)
PostAccepted(r) ==
  r.kind = "resp" /\ r.status \in {200, 400, 401, 403, 415, 422}

\* Mutant of AfterHTTPError: the error leaves detect_transport.
AfterHTTPError_propagates(step) == Ret("HTTPError")

\* except httpx.HTTPError: pass -- of the inner and of the outer try of
\* steps 1 and 2, and of step 3, after which "unknown" is returned.
AfterHTTPError(step) ==
  CASE step \in {"head_mcp", "post_probe"} -> Go("head_sse")
    [] step \in {"head_sse", "get_sse"} -> Go("post")
    [] step = "post" -> Ret("unknown")

\* Where detect_transport goes after the response r to the request `step`.
AfterResponse(step, r) ==
  CASE step = "head_mcp" ->
         IF EventStream200(r) THEN Ret("streamable-http")
         ELSE IF HeadMcpFallback(r) THEN Go("post_probe")
         ELSE Go("head_sse")
    [] step = "post_probe" ->
         IF EventStream200(r) THEN Ret("streamable-http") ELSE Go("head_sse")
    [] step = "head_sse" ->
         IF EventStream200(r) THEN Ret("sse")
         ELSE IF HeadSseFallback(r) THEN Go("get_sse")
         ELSE Go("post")
    [] step = "get_sse" ->
         IF EventStream200(r) THEN Ret("sse") ELSE Go("post")
    [] step = "post" ->
         IF PostAccepted(r) THEN Ret("http-post") ELSE Ret("unknown")

\* One blocking request of detect_transport and everything up to the next
\* request or the return.
DetectRequest(step) ==
  /\ det.pc = step
  /\ \E r \in ProbeOutcomes :
       LET n == IF r.kind = "resp" THEN AfterResponse(step, r)
                ELSE AfterHTTPError(step) IN
       det' = [pc |-> n.pc,
               outs |-> Append(det.outs, [req |-> step, out |-> r]),
               result |-> n.result]
  /\ UNCHANGED detRest

\* client.request("HEAD", mcp, ...)
probe_head_mcp == DetectRequest("head_mcp")

\* post_client.stream("POST", mcp, json=probe, ...)
probe_post_initialize == DetectRequest("post_probe")

\* client.head(sse, ...)
probe_head_sse == DetectRequest("head_sse")

\* get_client.stream("GET", sse, ...)
probe_get_sse == DetectRequest("get_sse")

\* httpx.post(mcp, json=probe, ...)
probe_post == DetectRequest("post")

NextDetect ==
  \/ probe_head_mcp
  \/ probe_post_initialize
  \/ probe_head_sse
  \/ probe_get_sse
  \/ probe_post

InitDetect == Constructed({0}) /\ OthersEntered

SpecDetect == InitDetect /\ [][NextDetect]_vars

\* ------------------------------------------------------------ fetch_schema
FetchTransports == {"auto", "streamable-http", "sse", "http-post"}

\* How an await of a streaming attempt ends: it returns, it raises, or the
\* anyio.fail_after deadline cancels it (TimeoutError).
AwaitOutcomes == {"ok", "exception", "timeout"}

\* preferred_transports
Candidates(d) ==
  IF d \in {"streamable-http", "sse"} THEN <<d>> ELSE <<"streamable-http", "sse">>

\* Mutant of Caught: the handler lets a timeout through.
Caught_not_timeouts(how) == how # "timeout"

\* except Exception: both an exception and fail_after's TimeoutError.
Caught(how) == how \in {"exception", "timeout"}

\* The JSON-RPC requests _fetch_http_post sends.
FetchInitializeRequest ==
  [method |-> "initialize", id |-> InitializeId, session |-> NoSession,
   version |-> MCP_PROTOCOL_VERSION]

\* Mutant of ListRequest: tools/list goes out with the client's version.
ListRequest_client_version(v, sid) ==
  [method |-> "tools/list", id |-> ToolsCallId, session |-> sid,
   version |-> MCP_PROTOCOL_VERSION]

ListRequest(v, sid) ==
  [method |-> "tools/list", id |-> ToolsCallId, session |-> sid, version |-> v]

\* init_data.get("result", {}).get("protocolVersion", client_version)
PostVersion(r) ==
  IF r.kind = "result" /\ r.version # Absent THEN r.version
  ELSE MCP_PROTOCOL_VERSION

\* The response header's session id, else str(uuid.uuid4()).
PostSession(r, k) == IF r.session # NoSession THEN r.session ELSE Minted(k)

\* The initialize responses of the POST path; unlike the Client,
\* _fetch_http_post does not look at an error field or at serverInfo.
FetchInitResponses ==
  [kind : {"result"}, version : {Absent, "2024-11-05", MCP_PROTOCOL_VERSION},
   session : {NoSession, ServerSession}, err : {"none"}]
  \cup
  [kind : {"neither", "rpcerr"}, version : {Absent},
   session : {NoSession, ServerSession}, err : {"none"}]
  \cup
  [kind : {"status", "malformed"}, version : {Absent}, session : {NoSession},
   err : {"none"}]
  \cup
  [kind : {"transport"}, version : {Absent}, session : {NoSession},
   err : TransportErrors]

\* Lists of at most MaxTools elements of S.
ListsOf(S) == UNION {[1..n -> S] : n \in 0..MaxTools}

ListResponses ==
  [kind : {"result"}, tools : ListsOf(RawTools), err : {"none"}]
  \cup
  [kind : {"neither", "rpcerr", "status", "malformed"}, tools : {<<>>},
   err : {"none"}]
  \cup
  [kind : {"transport"}, tools : {<<>>}, err : TransportErrors]

\* The objects the POST path builds from the tool records (lines 280-297).
Normalize(t) ==
  LET sch == t.inputSchema IN
  [name |-> t.name,
   description |-> IF t.description = Absent THEN "" ELSE t.description,
   input_schema |->
     [present |-> TRUE,
      properties |-> IF sch.properties = Absent THEN "{}" ELSE sch.properties,
      required |-> IF sch.required = Absent THEN "[]" ELSE sch.required,
      type |-> IF sch.type = Absent THEN "object" ELSE sch.type],
   inputSchema |-> NoSchema]

\* The mcp library's Tool object for a tool record: the record's fields under
\* their wire names, description None when the server gave none.
LibraryTool(t) ==
  [name |-> t.name,
   description |-> IF t.description = Absent THEN NoneValue ELSE t.description,
   input_schema |-> NoSchema,
   inputSchema |-> t.inputSchema]

\* The tools a streaming session can list: the library requires inputSchema.
LibraryToolLists ==
  ListsOf({LibraryTool(t) : t \in {u \in RawTools : u.inputSchema.present}})

\* _fetch_http_post up to its first await: the initialize request is sent.
StartPost(f) ==
  [f EXCEPT !.pc = "post_init", !.postReqs = Append(@, FetchInitializeRequest)]

\* The loop body up to its first await: the candidate is marked tried and
\* its connection is being opened.
StartAttempt(f, j) ==
  [f EXCEPT !.pc = "connect", !.idx = j, !.tried = @ \cup {f.cands[j]},
            !.conn = "none"]

\* The first candidate from position i on that is not in `tried`.
RECURSIVE NextUntried(_, _, _)
NextUntried(cands, i, tried) ==
  IF i > Len(cands) THEN i
  ELSE IF cands[i] \in tried THEN NextUntried(cands, i + 1, tried)
  ELSE i

\* for candidate in preferred_transports, from position i; after the loop
\* the POST path.
EnterLoop(f, i) ==
  LET j == NextUntried(f.cands, i, f.tried) IN
  IF j > Len(f.cands) THEN StartPost(f) ELSE StartAttempt(f, j)

\* An await of the running attempt did not return: the connection's context
\* is left, and the handler decides between the next candidate and the raise.
AttemptFailed(f, how) ==
  LET g == [f EXCEPT !.attempts =
                       Append(@, [cand |-> f.cands[f.idx], stage |-> f.pc,
                                  how |-> how]),
                     !.conn = IF @ = "open" THEN "closed" ELSE @] IN
  IF Caught(how) THEN EnterLoop(g, f.idx + 1)
  ELSE [g EXCEPT !.pc = "done",
                 !.outcome = Raised(IF how = "timeout" THEN "TimeoutError"
                                    ELSE "Exception", "")]

\* fetch_schema(base_url, transport=tr) up to its first await.
fetch_schema(tr) ==
  /\ fs.pc = "start"
  /\ \E p \in (IF tr = "auto" THEN Profiles ELSE {AnyProfile}) :
       LET d == IF tr = "auto" THEN detect_transport(p) ELSE tr
           f == [fs EXCEPT !.arg = tr, !.detected = d] IN
       fs' = IF d = "http-post" THEN StartPost(f)
             ELSE EnterLoop([f EXCEPT !.cands = Candidates(d)], 1)
  /\ UNCHANGED fetchRest

\* async with streamablehttp_client(...) / sse_client(...) is entered.
session_connected ==
  /\ fs.pc = "connect"
  /\ \E how \in AwaitOutcomes :
       fs' = IF how = "ok"
             THEN [fs EXCEPT !.pc = "session_init", !.conn = "open"]
             ELSE AttemptFailed(fs, how)
  /\ UNCHANGED fetchRest

\* await s.initialize() ends; on success `return s` leaves the async with
\* block, which closes the connection, and s.list_tools() is awaited.
session_initialized ==
  /\ fs.pc = "session_init"
  /\ \E how \in AwaitOutcomes :
       fs' = IF how = "ok"
             THEN [fs EXCEPT !.pc = "list_tools", !.conn = "closed"]
             ELSE AttemptFailed(fs, how)
  /\ UNCHANGED fetchRest

\* await s.list_tools() ends; on success its tools are returned as they are.
tools_listed ==
  /\ fs.pc = "list_tools"
  /\ \E how \in AwaitOutcomes :
       IF how = "ok"
       THEN \E ts \in LibraryToolLists :
              fs' = [fs EXCEPT
                       !.pc = "done",
                       !.attempts = Append(@, [cand |-> fs.cands[fs.idx],
                                               stage |-> fs.pc, how |-> how]),
                       !.outcome = Returned("tools"),
                       !.returned = [path |-> "streaming", tools |-> ts]]
       ELSE fs' = AttemptFailed(fs, how)
  /\ UNCHANGED fetchRest

\* The POST path's initialize response arrives; tools/list is sent with the
\* updated http_headers, unless the response raises.
post_initialize_response ==
  /\ fs.pc = "post_init"
  /\ \E r \in FetchInitResponses :
       fs' = IF r.kind \in {"result", "neither", "rpcerr"}
             THEN [fs EXCEPT
                     !.pc = "post_list",
                     !.initResp = r,
                     !.minted = IF r.session = NoSession THEN @ + 1 ELSE @,
                     !.postReqs =
                       Append(@, ListRequest(PostVersion(r),
                                             PostSession(r, fs.minted + 1)))]
             ELSE [fs EXCEPT
                     !.pc = "done",
                     !.initResp = r,
                     !.outcome =
                       Raised(CASE r.kind = "status" -> "HTTPStatusError"
                                [] r.kind = "malformed" -> "JSONDecodeError"
                                [] OTHER -> r.err, "")]
  /\ UNCHANGED fetchRest

\* The tools/list response arrives: the tool records are converted and
\* returned, unless the response raises.
post_list_response ==
  /\ fs.pc = "post_list"
  /\ \E r \in ListResponses :
       fs' = IF r.kind \in {"result", "neither", "rpcerr"}
             THEN [fs EXCEPT
                     !.pc = "done",
                     !.outcome = Returned("tools"),
                     !.returned =
                       [path |-> "post",
                        tools |-> [i \in 1..Len(r.tools) |-> Normalize(r.tools[i])]]]
             ELSE [fs EXCEPT
                     !.pc = "done",
                     !.outcome =
                       Raised(CASE r.kind = "status" -> "HTTPStatusError"
                                [] r.kind = "malformed" -> "JSONDecodeError"
                                [] OTHER -> r.err, "")]
  /\ UNCHANGED fetchRest

NextFetch ==
  \/ \E tr \in FetchTransports : fetch_schema(tr)
  \/ session_connected
  \/ session_initialized
  \/ tools_listed
  \/ post_initialize_response
  \/ post_list_response

InitFetch == Constructed({0}) /\ OthersEntered

SpecFetch == InitFetch /\ [][NextFetch]_vars

\* ---------------------------------------------------- read_first_sse_event
\* The stream's text is a sequence of characters: "n" is a newline, "d" ":"
\* stand for the prefix 'data: ', "a" and "b" are JSON documents, "x" is any
\* other text (an event: or id: field, a comment).
Frames == {"data_a", "data_b", "comment", "event_data_b", "data_bad"}

FrameChars(f) ==
  CASE f = "data_a" -> <<"d", ":", "a", "n", "n">>
    [] f = "data_b" -> <<"d", ":", "b", "n", "n">>
    [] f = "comment" -> <<"x", "n", "n">>
    [] f = "event_data_b" -> <<"x", "n", "d", ":", "b", "n", "n">>
    [] f = "data_bad" -> <<"d", ":", "x", "n", "n">>

\* A data line that the stream ends after, with no blank line.
TailChars == <<"d", ":", "a", "n">>

FrameLists == UNION {[1..n -> Frames] : n \in 0..MaxFrames}

RECURSIVE Flatten(_)
Flatten(fr) ==
  IF fr = <<>> THEN <<>> ELSE FrameChars(Head(fr)) \o Flatten(Tail(fr))

\* Everything the stream delivers before it ends.
Body == Flatten(sse.frames) \o (IF sse.tail THEN TailChars ELSE <<>>)

JsonResult(v) == [kind |-> "json", value |-> v]

EmptyDict == [kind |-> "empty", value |-> <<>>]

DecodeError == [kind |-> "JSONDecodeError", value |-> <<>>]

\* json.loads: the parsed document, or json.JSONDecodeError.
json_loads(str) ==
  IF str # <<>> /\ \A i \in 1..Len(str) : str[i] \in {"a", "b"}
  THEN JsonResult(str)
  ELSE DecodeError

\* '\n\n' in buffer
HasBlank(buf) == \E i \in 1..(Len(buf) - 1) : buf[i] = "n" /\ buf[i + 1] = "n"

\* buffer.split('\n\n')[0]
FirstEvent(buf) ==
  LET i == CHOOSE i \in 1..(Len(buf) - 1) :
             /\ buf[i] = "n" /\ buf[i + 1] = "n"
             /\ \A j \in 1..(i - 1) : ~(buf[j] = "n" /\ buf[j + 1] = "n") IN
  SubSeq(buf, 1, i - 1)

\* event.split('\n')
RECURSIVE SplitLines(_)
SplitLines(e) ==
  IF \A i \in 1..Len(e) : e[i] # "n" THEN <<e>>
  ELSE LET i == CHOOSE i \in 1..Len(e) :
                  e[i] = "n" /\ \A j \in 1..(i - 1) : e[j] # "n" IN
       <<SubSeq(e, 1, i - 1)>> \o SplitLines(SubSeq(e, i + 1, Len(e)))

\* line.startswith('data: ')
StartsWithData(line) == Len(line) >= 2 /\ line[1] = "d" /\ line[2] = ":"

\* The loop over the first event's lines: the first data line is parsed and
\* returned; without one the loop ends, and {} is returned after the break.
ParseEvent(e) ==
  LET lines == SplitLines(e)
      D == {i \in 1..Len(lines) : StartsWithData(lines[i])} IN
  IF D = {} THEN EmptyDict
  ELSE LET i == CHOOSE i \in D : \A j \in D : i <= j IN
       json_loads(SubSeq(lines[i], 3, Len(lines[i])))

\* Mutant of EventComplete: an event without a data line does not end the
\* reading.
EventComplete_needs_data(buf) ==
  HasBlank(buf) /\ ParseEvent(FirstEvent(buf)) # EmptyDict

\* if '\n\n' in buffer: the function returns or breaks.
EventComplete(buf) == HasBlank(buf)

\* aiter_bytes yields the next chunk, of any positive length; the loop body.
sse_chunk ==
  /\ sse.pc = "reading"
  /\ sse.pos < Len(Body)
  /\ \E k \in 1..(Len(Body) - sse.pos) :
       LET buffer == SubSeq(Body, 1, sse.pos + k) IN
       sse' = [sse EXCEPT
                 !.prev = sse.pos,
                 !.pos = sse.pos + k,
                 !.chunks = @ + 1,
                 !.pc = IF EventComplete(buffer) THEN "done" ELSE "reading",
                 !.result = IF EventComplete(buffer)
                            THEN ParseEvent(FirstEvent(buffer))
                            ELSE @]
  /\ UNCHANGED sseRest

\* The stream ends before any event was complete: return {}.
sse_stream_end ==
  /\ sse.pc = "reading"
  /\ sse.pos = Len(Body)
  /\ sse' = [sse EXCEPT !.pc = "done", !.result = EmptyDict]
  /\ UNCHANGED sseRest

NextSse ==
  \/ sse_chunk
  \/ sse_stream_end

InitSse ==
  /\ Constructed({0})
  /\ ProberEntered
  /\ FetchEntered
  /\ MergeCalled(EmptyMap, TRUE)
  /\ RunnerSideEntered
  /\ \E fr \in FrameLists, tl \in BOOLEAN : ReaderEntered(fr, tl)

SpecSse == InitSse /\ [][NextSse]_vars

\* --------------------------------------------------- ensure_accept_headers
\* A header value is the sequence of its comma-separated parts, each part as
\* written: "application/json, text/event-stream" is the two parts below.
StandardAccept == <<"application/json", " text/event-stream">>

HeaderNames == {"Accept", "accept", "Authorization", "X-Trace"}

AcceptInputs ==
  { <<"">>,
    <<"application/json">>,
    <<"text/event-stream">>,
    StandardAccept,
    <<"text/event-stream", "application/json">>,
    <<"Application/JSON", " text/event-stream">>,
    <<"text/html", " ">> }

ValuesOf(k) ==
  CASE k = "Accept" -> AcceptInputs
    [] k = "accept" -> {<<"text/html">>, StandardAccept}
    [] k = "Authorization" -> {<<"Bearer token">>}
    [] k = "X-Trace" -> {<<"1">>}

HeaderMaps ==
  UNION {{m \in [S -> UNION {ValuesOf(k) : k \in HeaderNames}] :
            \A k \in S : m[k] \in ValuesOf(k)} : S \in SUBSET HeaderNames}

\* v.strip()
Strip(v) ==
  CASE v = " text/event-stream" -> "text/event-stream"
    [] v = " " -> ""
    [] OTHER -> v

\* v.lower()
Lower(v) == IF v = "Application/JSON" THEN "application/json" ELSE v

\* The elements of accept_values.
AcceptValues(merged) ==
  LET parts == IF "Accept" \in DOMAIN merged THEN merged["Accept"] ELSE <<"">> IN
  {Lower(Strip(parts[i])) : i \in {j \in 1..Len(parts) : Strip(parts[j]) # ""}}

\* The map ensure_accept_headers returns.
Merged(h, none) ==
  LET merged == IF none THEN EmptyMap ELSE h IN
  IF \/ "application/json" \notin AcceptValues(merged)
     \/ "text/event-stream" \notin AcceptValues(merged)
  THEN [k \in DOMAIN merged \cup {"Accept"} |->
          IF k = "Accept" THEN StandardAccept ELSE merged[k]]
  ELSE merged

\* Mutant of ArgumentAfter: the function writes into the caller's map.
ArgumentAfter_written_in_place(h, none) == Merged(h, none)

\* The caller's map after the call: merged is a copy, dict(headers or {}).
ArgumentAfter(h, none) == h

ensure_accept_headers ==
  /\ hd.pc = "called"
  /\ hd' = [hd EXCEPT !.pc = "returned",
                       !.result = Merged(hd.arg, hd.none),
                       !.after = ArgumentAfter(hd.arg, hd.none)]
  /\ UNCHANGED hdRest

NextMerge == ensure_accept_headers

InitMerge ==
  /\ Constructed({0})
  /\ ProberEntered
  /\ FetchEntered
  /\ ReaderEntered(<<>>, FALSE)
  /\ RunnerSideEntered
  /\ \/ MergeCalled(EmptyMap, TRUE)
     \/ \E h \in HeaderMaps : MergeCalled(h, FALSE)

SpecMerge == InitMerge /\ [][NextMerge]_vars

\* ======================================== runner: TruncatedStringIO
\* runner/run.py captures the user code's stdout and stderr in two
\* TruncatedStringIO objects.  A text is a sequence of characters; the
\* buffer is the list of pieces appended so far.

\* The piece write appends when it truncates:
\* "\n[OUTPUT TRUNCATED at {max_size} bytes]\n".
Marker == "[OUTPUT TRUNCATED]"

TextChars == {"a", "b"}

RECURSIVE TextsOfLen(_)
TextsOfLen(n) ==
  IF n = 0 THEN {<<>>}
  ELSE {<<c>> \o t : c \in TextChars, t \in TextsOfLen(n - 1)}

\* The arguments of write the model draws from.
Texts == UNION {TextsOfLen(n) : n \in 0..MaxText}

\* text[:available]
Kept_one_less(text, available) == SubSeq(text, 1, available - 1)
Kept(text, available) == SubSeq(text, 1, available)

\* ''.join(pieces)
RECURSIVE Join(_)
Join(pieces) ==
  IF pieces = <<>> THEN <<>> ELSE Head(pieces) \o Join(Tail(pieces))

\* TruncatedStringIO.getvalue()
getvalue == Join(tb.buffer)

\* TruncatedStringIO.write(text)
write(text) ==
  /\ tb.writes < MaxWrites
  /\ tb' =
       LET seen == [tb EXCEPT !.written = @ \o text, !.text = text,
                              !.writes = @ + 1]
           available == tb.max_size - tb.size
       IN  IF tb.size >= tb.max_size
           THEN [seen EXCEPT !.returned = 0]
           ELSE IF Len(text) > available
           THEN [seen EXCEPT
                   !.buffer = @ \o <<Kept(text, available), <<Marker>>>>,
                   !.size = tb.max_size,
                   !.returned = Len(Kept(text, available))]
           ELSE [seen EXCEPT
                   !.buffer = Append(@, text),
                   !.size = @ + Len(text),
                   !.returned = Len(text)]
  /\ UNCHANGED bufRest

NextBuf == \E text \in Texts : write(text)

InitBuf ==
  /\ Constructed({0})
  /\ ProberEntered
  /\ FetchEntered
  /\ ReaderEntered(<<>>, FALSE)
  /\ MergeCalled(EmptyMap, TRUE)
  /\ RunnerIdle
  /\ LimitsCalled(NoLimitArgs, "linux")
  /\ ScrubCalled("basic", EmptyMap)
  /\ TextCalled("basic", <<>>)
  /\ LogCalled(<<>>, EmptyMap)
  /\ AsyncCalled("function", FALSE, NotEnded)
  /\ \E B \in 0..MaxSize : BufferConstructed(B)

SpecBuf == InitBuf /\ [][NextBuf]_vars

\* ================================================ runner: one invocation
\* cli._run builds the runner's command line and spawns it; runner/run.py
\* main parses it, run_agent_code applies the limits, captures stdout and
\* stderr and executes the user code; main prints the result and exits.

\* TruncatedStringIO(max_size=200*1024)
CaptureBound == 200 * 1024

\* len("\n[OUTPUT TRUNCATED at 204800 bytes]\n")
MarkerLen == 36

\* apply_limits' defaults
DefaultCpuSeconds == 10
DefaultMemoryMb == 512

\* argparse's exit status for a command line it rejects
ArgparseErrorCode == 2

\* the interpreter's exit status for an exception nothing caught
UncaughtExitCode == 1

\* len("ValueError"), the kind of Exception the model's user code raises
TypeNameLen == 10

\* Values of --cpu-seconds and --memory-mb the model draws from.
CpuChoices == {1, DefaultCpuSeconds}
MemChoices == {64, DefaultMemoryMb}

RunOptions ==
  [cpu_seconds : CpuChoices, memory_mb : MemChoices,
   disable_network : BOOLEAN, seccomp : BOOLEAN, firejail : BOOLEAN]

Platforms == {"linux", "other"}

\* runner_args as cli._run builds them (the option names)
RunnerArgs(o) ==
  {"--code", "--servers-dir", "--workspace", "--cpu-seconds", "--memory-mb"}
    \cup (IF o.disable_network THEN {"--disable-network"} ELSE {})
    \cup (IF o.seccomp THEN {"--seccomp"} ELSE {})
    \cup (IF o.firejail THEN {"--firejail"} ELSE {})

\* The options main's ArgumentParser defines.
RunnerOptions ==
  {"--code", "--file", "--servers-dir", "--workspace", "--cpu-seconds",
   "--memory-mb", "--no-limits", "--disable-network"}

\* apply_limits(cpu_seconds, max_memory_mb) on a platform
ApplyLimits(cpu_seconds, max_memory_mb, platform) ==
  IF platform # "linux" THEN [NoLimits EXCEPT !.called = TRUE]
  ELSE [called |-> TRUE, applied |-> TRUE, cpu |-> cpu_seconds,
        as |-> max_memory_mb * 1024 * 1024]

\* Texts the user code writes to a stream, and messages its exceptions
\* carry.  A text holding a pattern is a short one ("a@b.com").
UserWrites ==
  {[len |-> 1, pii |-> FALSE], [len |-> 7, pii |-> TRUE],
   [len |-> CaptureBound, pii |-> FALSE],
   [len |-> CaptureBound + 1, pii |-> FALSE]}

Messages ==
  {NoText, [len |-> 7, pii |-> TRUE], [len |-> 300000, pii |-> FALSE]}

SystemExitCodes == {0, 3}

\* The ways the user code ends.
Endings ==
  {[kind |-> "returns", msg |-> NoText, code |-> 0],
   [kind |-> "KeyboardInterrupt", msg |-> NoText, code |-> 0]}
    \cup [kind : {"Exception", "BaseException"}, msg : Messages, code : {0}]
    \cup [kind : {"SystemExit"}, msg : {NoText}, code : SystemExitCodes]

\* TruncatedStringIO.write by lengths.  A pattern in a text survives when
\* the text is kept whole.
WriteLen(b, t) ==
  IF b.size >= CaptureBound THEN b
  ELSE LET available == CaptureBound - b.size IN
       IF t.len > available
       THEN [b EXCEPT !.size = CaptureBound,
                      !.len = @ + available + MarkerLen,
                      !.markers = @ + 1]
       ELSE [b EXCEPT !.size = @ + t.len, !.len = @ + t.len,
                      !.pii = @ \/ t.pii]

\* TruncatedStringIO.getvalue by lengths
ValueOf(b) == [len |-> b.len, pii |-> b.pii]

\* f"{type(e).__name__}: {str(e)}"
ErrorText(msg) == [len |-> TypeNameLen + 2 + msg.len, pii |-> msg.pii]

\* "Execution interrupted by user"
InterruptedText == [len |-> 29, pii |-> FALSE]

\* What run_agent_code returns when the user code ends with e (nothing for
\* an exception neither except clause catches).
ResultOf(e, out, err) ==
  IF e.kind = "returns"
  THEN [present |-> TRUE, status |-> "success", stdout |-> ValueOf(out),
        stderr |-> ValueOf(err), usage |-> TRUE]
  ELSE IF e.kind = "KeyboardInterrupt"
  THEN [present |-> TRUE, status |-> "interrupted",
        stdout |-> ValueOf(out), stderr |-> InterruptedText,
        usage |-> TRUE]
  ELSE IF e.kind = "Exception"
  THEN [present |-> TRUE, status |-> "error", stdout |-> ValueOf(out),
        stderr |-> ErrorText(e.msg), usage |-> TRUE]
  ELSE NoExecutionResult

\* What leaves run_agent_code as an exception.
RaisedBy(e) ==
  IF e.kind \in {"SystemExit", "BaseException"} THEN e.kind ELSE "none"

\* main's exit status for a result
ExitOfStatus(status) ==
  IF status = "error" THEN 1
  ELSE IF status = "interrupted" THEN 130
  ELSE 0

\* cli._run: build the command line and spawn the runner
cli_run(o, platform) ==
  /\ rn.pc = "idle"
  /\ rn' = [rn EXCEPT !.pc = "spawned", !.opts = o,
                      !.platform = platform, !.argv = RunnerArgs(o)]
  /\ UNCHANGED runRest

\* main: parser.parse_args()
parse_args ==
  /\ rn.pc = "spawned"
  /\ rn' =
       IF rn.argv \subseteq RunnerOptions
       THEN [rn EXCEPT
               !.pc = "parsed",
               !.args = [NoOptions EXCEPT
                           !.cpu_seconds = rn.opts.cpu_seconds,
                           !.memory_mb = rn.opts.memory_mb,
                           !.disable_network =
                              "--disable-network" \in rn.argv]]
       ELSE [rn EXCEPT !.pc = "exited", !.exit_code = ArgparseErrorCode]
  /\ UNCHANGED runRest

\* main: allow_network=not args.disable_network
AllowNetwork(args) == ~args.disable_network

\* run_agent_code: if not allow_network: _disable_network()
DenyNetwork_always(allow_network) == TRUE
DenyNetwork(allow_network) == ~allow_network

\* run_agent_code: apply_limits().  A setrlimit call that fails leaves the
\* limits unset (SpecLimits has the calls one by one).
apply_limits_runs(fails) ==
  /\ rn.pc = "parsed"
  /\ rn' = [rn EXCEPT
              !.pc = "limited",
              !.limits =
                 IF fails THEN [NoLimits EXCEPT !.called = TRUE]
                 ELSE ApplyLimits(DefaultCpuSeconds, DefaultMemoryMb,
                                  rn.platform)]
  /\ UNCHANGED runRest

\* run_agent_code: the socket entry points are replaced, or left alone
network_guard ==
  /\ rn.pc = "limited"
  /\ rn' = [rn EXCEPT
              !.pc = "guarded",
              !.network_disabled = DenyNetwork(AllowNetwork(rn.args))]
  /\ UNCHANGED runRest

\* run_agent_code: the capture buffers replace sys.stdout and sys.stderr
\* and exec(code, namespace) starts
exec_begins ==
  /\ rn.pc = "guarded"
  /\ rn' = [rn EXCEPT !.pc = "executing",
                      !.out = NewCapture, !.err = NewCapture,
                      !.executed = TRUE]
  /\ UNCHANGED runRest

\* the user code writes to sys.stdout or sys.stderr
user_writes(stream, t) ==
  /\ rn.pc = "executing"
  /\ rn.prints < MaxPrints
  /\ rn' = IF stream = "stdout"
           THEN [rn EXCEPT !.out = WriteLen(@, t), !.prints = @ + 1]
           ELSE [rn EXCEPT !.err = WriteLen(@, t), !.prints = @ + 1]
  /\ UNCHANGED runRest

\* exec(code, namespace) ends; run_agent_code returns or raises
user_code_ends(e) ==
  /\ rn.pc = "executing"
  /\ rn' = [rn EXCEPT !.pc = "ended", !.ending = e,
                      !.result = ResultOf(e, rn.out, rn.err),
                      !.raised = RaisedBy(e)]
  /\ UNCHANGED runRest

\* main after asyncio.run: print the result and exit
main_exits ==
  /\ rn.pc = "ended"
  /\ rn' =
       IF rn.raised = "SystemExit"
       THEN [rn EXCEPT !.pc = "exited", !.exit_code = rn.ending.code]
       ELSE IF rn.raised = "BaseException"
       THEN [rn EXCEPT !.pc = "exited", !.exit_code = UncaughtExitCode]
       ELSE [rn EXCEPT !.pc = "exited", !.printed = rn.result,
                       !.exit_code = ExitOfStatus(rn.result.status)]
  /\ UNCHANGED runRest

NextRun ==
  \/ \E o \in RunOptions, platform \in Platforms : cli_run(o, platform)
  \/ parse_args
  \/ \E fails \in BOOLEAN : apply_limits_runs(fails)
  \/ network_guard
  \/ exec_begins
  \/ \E stream \in {"stdout", "stderr"}, t \in UserWrites :
       user_writes(stream, t)
  \/ \E e \in Endings : user_code_ends(e)
  \/ main_exits

InitRun ==
  /\ Constructed({0})
  /\ ProberEntered
  /\ FetchEntered
  /\ ReaderEntered(<<>>, FALSE)
  /\ MergeCalled(EmptyMap, TRUE)
  /\ BufferConstructed(0)
  /\ RunnerIdle
  /\ LimitsCalled(NoLimitArgs, "linux")
  /\ ScrubCalled("basic", EmptyMap)
  /\ TextCalled("basic", <<>>)
  /\ LogCalled(<<>>, EmptyMap)
  /\ AsyncCalled("function", FALSE, NotEnded)

SpecRun == InitRun /\ [][NextRun]_vars

\* ================================================ runner: apply_limits
\* runner/limits.py, apply_limits, one setrlimit call at a time.

\* The limits in the order apply_limits sets them.
Resources == <<"RLIMIT_CPU", "RLIMIT_AS", "RLIMIT_NOFILE", "RLIMIT_NPROC">>

AllResources == {Resources[i] : i \in DOMAIN Resources}

\* The arguments the model draws from: the defaults and one other value.
LimitArgs ==
  [cpu_seconds : {1, 10}, max_memory_mb : {64, 512}, max_files : {16, 64},
   max_processes : {64}]

\* The value apply_limits gives to the i-th limit (soft and hard alike).
LimitValue(args, i) ==
  CASE i = 1 -> args.cpu_seconds
    [] i = 2 -> args.max_memory_mb * 1024 * 1024
    [] i = 3 -> args.max_files
    [] OTHER -> args.max_processes

\* What resource.setrlimit can do: return, or raise one of these.
SetrlimitErrors == {"OSError", "ValueError"}

\* except (OSError, ValueError)
LimitsCaught_only_oserror(e) == e = "OSError"
LimitsCaught(e) == e \in {"OSError", "ValueError"}

\* if sys.platform != 'linux': print the warning and return
limits_platform_check ==
  /\ lm.pc = "called"
  /\ lm' = IF lm.platform # "linux"
           THEN [lm EXCEPT !.pc = "returned",
                           !.printed = Append(@, "not_supported")]
           ELSE [lm EXCEPT !.pc = "setting"]
  /\ UNCHANGED limitsRest

\* one resource.setrlimit call returns
setrlimit_returns ==
  /\ lm.pc = "setting"
  /\ lm.next <= Len(Resources)
  /\ lm' = [lm EXCEPT
              !.set = @ \cup {[resource |-> Resources[lm.next],
                               value |-> LimitValue(lm.args, lm.next)]},
              !.next = @ + 1]
  /\ UNCHANGED limitsRest

\* one resource.setrlimit call raises e
setrlimit_raises(e) ==
  /\ lm.pc = "setting"
  /\ lm.next <= Len(Resources)
  /\ lm' = IF LimitsCaught(e)
           THEN [lm EXCEPT !.pc = "returned", !.error = e,
                           !.printed = Append(@, "could_not_apply")]
           ELSE [lm EXCEPT !.pc = "raised", !.raised = e]
  /\ UNCHANGED limitsRest

\* after the four calls: print "[runner] Applied limits: ..."
limits_applied_printed ==
  /\ lm.pc = "setting"
  /\ lm.next > Len(Resources)
  /\ lm' = [lm EXCEPT !.pc = "returned",
                      !.printed = Append(@, "applied")]
  /\ UNCHANGED limitsRest

NextLimits ==
  \/ limits_platform_check
  \/ setrlimit_returns
  \/ \E e \in SetrlimitErrors : setrlimit_raises(e)
  \/ limits_applied_printed

InitLimits ==
  /\ Constructed({0})
  /\ ProberEntered
  /\ FetchEntered
  /\ ReaderEntered(<<>>, FALSE)
  /\ MergeCalled(EmptyMap, TRUE)
  /\ BufferConstructed(0)
  /\ RunnerIdle
  /\ ScrubCalled("basic", EmptyMap)
  /\ TextCalled("basic", <<>>)
  /\ LogCalled(<<>>, EmptyMap)
  /\ AsyncCalled("function", FALSE, NotEnded)
  /\ \E args \in LimitArgs, platform \in Platforms :
       LimitsCalled(args, platform)

SpecLimits == InitLimits /\ [][NextLimits]_vars

\* =================================================== runner: scrub_text
\* runner/privacy.py, Scrubber.__init__ and Scrubber.scrub_text.  A text
\* is a sequence of tokens.  An e-mail address, an SSN, a card number or a
\* phone number is one token, which a pattern matches whole or not at all;
\* an IP literal is its octets and dots, token by token.

Levels == {"basic", "strict"}

Octets == {"10", "172", "16", "192", "168", "0", "1", "8"}

\* The literals the texts are made of, each with what it is.
Literals ==
  {[kind |-> "plain", tokens |-> <<"hello">>],
   [kind |-> "email", tokens |-> <<"a@b.com">>],
   [kind |-> "ssn", tokens |-> <<"123-45-6789">>],
   [kind |-> "card", tokens |-> <<"4111111111111111">>],
   [kind |-> "phone", tokens |-> <<"+4612345678">>],
   [kind |-> "phone", tokens |-> <<"555-123-4567">>],
   [kind |-> "private_ip", tokens |-> <<"10", ".", "0", ".", "0", ".", "1">>],
   [kind |-> "private_ip",
    tokens |-> <<"192", ".", "168", ".", "1", ".", "1">>],
   [kind |-> "private_ip",
    tokens |-> <<"172", ".", "16", ".", "0", ".", "1">>],
   [kind |-> "public_ip", tokens |-> <<"8", ".", "8", ".", "8", ".", "8">>]}

\* self._patterns: the patterns in the order scrub_text applies them.
BasicPatterns == <<"EMAIL_RE", "SSN_RE", "CREDIT_CARD_RE">>

StrictPatterns == <<"INTL_PHONE_RE", "PRIVATE_IP_RE", "US_PHONE_RE">>

Patterns(level) ==
  IF level = "strict" THEN BasicPatterns \o StrictPatterns
  ELSE BasicPatterns

\* The replacement paired with a pattern.
Replacement(pattern) ==
  CASE pattern = "EMAIL_RE" -> "[EMAIL]"
    [] pattern = "SSN_RE" -> "[SSN]"
    [] pattern = "CREDIT_CARD_RE" -> "[CREDIT_CARD]"
    [] pattern = "PRIVATE_IP_RE" -> "[PRIVATE_IP]"
    [] OTHER -> "[PHONE]"

\* text[i..i+n-1] are the tokens ts
TokensAt(text, i, ts) ==
  /\ i + Len(ts) - 1 <= Len(text)
  /\ \A j \in 1..Len(ts) : text[i + j - 1] = ts[j]

\* (?:10\.|172\.(?:1[6-9]|2[0-9]|3[01])\.|192\.168\.)
PrivatePrefixes ==
  {<<"10", ".">>, <<"172", ".", "16", ".">>, <<"192", ".", "168", ".">>}

\* The number of tokens the pattern matches at position i of the text
\* (0: no match there).  PRIVATE_IP_RE is a private prefix and the one
\* octet after it: \d{1,3}\b.
MatchLen(pattern, text, i) ==
  CASE pattern = "EMAIL_RE" -> IF text[i] = "a@b.com" THEN 1 ELSE 0
    [] pattern = "SSN_RE" -> IF text[i] = "123-45-6789" THEN 1 ELSE 0
    [] pattern = "CREDIT_CARD_RE" ->
         IF text[i] = "4111111111111111" THEN 1 ELSE 0
    [] pattern = "INTL_PHONE_RE" -> IF text[i] = "+4612345678" THEN 1 ELSE 0
    [] pattern = "US_PHONE_RE" -> IF text[i] = "555-123-4567" THEN 1 ELSE 0
    [] OTHER ->
         LET fits == {p \in PrivatePrefixes :
                        /\ TokensAt(text, i, p)
                        /\ i + Len(p) <= Len(text)
                        /\ text[i + Len(p)] \in Octets}
         IN  IF fits = {} THEN 0
             ELSE Len(CHOOSE p \in fits : TRUE) + 1

\* pattern.sub(replacement, text), from position i on
RECURSIVE Sub(_, _, _)
Sub(pattern, text, i) ==
  IF i > Len(text) THEN <<>>
  ELSE LET n == MatchLen(pattern, text, i) IN
       IF n > 0 THEN <<Replacement(pattern)>> \o Sub(pattern, text, i + n)
       ELSE <<text[i]>> \o Sub(pattern, text, i + 1)

\* for pattern, replacement in patterns: text = pattern.sub(...)
RECURSIVE SubAll(_, _)
SubAll(patterns, text) ==
  IF patterns = <<>> THEN text
  ELSE SubAll(Tail(patterns), Sub(Head(patterns), text, 1))

\* Scrubber(level).scrub_text(text)
scrub_text(level, text) == SubAll(Patterns(level), text)

\* The texts the model draws from: up to MaxParts literals.
PartLists == UNION {[1..n -> Literals] : n \in 1..MaxParts}

\* one call of scrub_text returns
scrub_text_returns ==
  /\ tx.pc = "called"
  /\ tx' = [tx EXCEPT !.pc = "returned",
                      !.result = scrub_text(tx.level, tx.arg)]
  /\ UNCHANGED textRest

NextText == scrub_text_returns

InitText ==
  /\ Constructed({0})
  /\ ProberEntered
  /\ FetchEntered
  /\ ReaderEntered(<<>>, FALSE)
  /\ MergeCalled(EmptyMap, TRUE)
  /\ BufferConstructed(0)
  /\ RunnerIdle
  /\ LimitsCalled(NoLimitArgs, "linux")
  /\ ScrubCalled("basic", EmptyMap)
  /\ LogCalled(<<>>, EmptyMap)
  /\ AsyncCalled("function", FALSE, NotEnded)
  /\ \E level \in Levels, parts \in PartLists : TextCalled(level, parts)

SpecText == InitText /\ [][NextText]_vars

\* =================================================== runner: scrub_dict
\* runner/privacy.py, Scrubber.scrub_dict.  A value is a record of its
\* type ("str", "int", "dict", "list"), its text (a str or the digits of an
\* int, as tokens), its entries (a dict) and its items (a list).


\* Keys of the maps the model draws from.
Keys == {"note", "API_Key"}

\* key.lower()
KeyLower(key) == IF key = "API_Key" THEN "api_key" ELSE key

SensitiveTerms == {"password", "token", "secret", "key", "auth"}

\* term in key_lower
TermIn(term, key_lower) == term = "key" /\ key_lower = "api_key"

\* any(term in key_lower for term in [...])
Sensitive(key) == \E term \in SensitiveTerms : TermIn(term, KeyLower(key))

\* String values the model draws from: no pattern, an e-mail address, an
\* international phone number.
Strings == {<<"hello">>, <<"a@b.com">>, <<"+4612345678">>}

Leaf(type, text) ==
  [type |-> type, text |-> text, entries |-> EmptyMap, items |-> <<>>]

Leaves == {Leaf("str", t) : t \in Strings} \cup {Leaf("int", <<"12345">>)}

\* The maps over some of the keys with values in vs.
MapsOver(vs) == UNION {[ks -> vs] : ks \in SUBSET Keys}

ListsOver(vs) == UNION {[1..n -> vs] : n \in 0..MaxItems}

DictValue(m) ==
  [type |-> "dict", text |-> <<>>, entries |-> m, items |-> <<>>]

ListValue(l) ==
  [type |-> "list", text |-> <<>>, entries |-> EmptyMap, items |-> l]

\* The items of the lists: strings, ints, and maps and lists of those.
ItemValues ==
  Leaves
    \cup {DictValue(m) : m \in MapsOver(Leaves)}
    \cup {ListValue(l) : l \in ListsOver(Leaves)}

Values ==
  Leaves
    \cup {DictValue(m) : m \in MapsOver(Leaves)}
    \cup {ListValue(l) : l \in ListsOver(ItemValues)}

\* The arguments of scrub_dict the model draws from.
DataMaps == MapsOver(Values)

\* "[REDACTED]"
Redacted == Leaf("str", <<"[REDACTED]">>)

\* [self.scrub_text(v) if isinstance(v, str) else v for v in value]
ScrubItems(level, items) ==
  [i \in DOMAIN items |->
     IF items[i].type = "str"
     THEN [items[i] EXCEPT !.text = scrub_text(level, @)]
     ELSE items[i]]

\* Scrubber.scrub_dict at a level
RECURSIVE scrub_dict(_, _)
scrub_dict(level, data) ==
  [key \in DOMAIN data |->
     LET value == data[key] IN
     IF value.type = "str"
     THEN IF Sensitive(key) THEN Redacted
          ELSE [value EXCEPT !.text = scrub_text(level, @)]
     ELSE IF value.type = "dict"
     THEN [value EXCEPT !.entries = scrub_dict(level, @)]
     ELSE IF value.type = "list"
     THEN [value EXCEPT !.items = ScrubItems(level, @)]
     ELSE value]

\* one call of scrub_dict returns
scrub_dict_returns ==
  /\ sd.pc = "called"
  /\ sd' = [sd EXCEPT !.pc = "returned",
                      !.result = scrub_dict(sd.level, sd.arg)]
  /\ UNCHANGED scrubRest

NextScrub == scrub_dict_returns

InitScrub ==
  /\ Constructed({0})
  /\ ProberEntered
  /\ FetchEntered
  /\ ReaderEntered(<<>>, FALSE)
  /\ MergeCalled(EmptyMap, TRUE)
  /\ BufferConstructed(0)
  /\ RunnerIdle
  /\ LimitsCalled(NoLimitArgs, "linux")
  /\ TextCalled("basic", <<>>)
  /\ LogCalled(<<>>, EmptyMap)
  /\ AsyncCalled("function", FALSE, NotEnded)
  /\ \E level \in Levels, data \in DataMaps : ScrubCalled(level, data)

SpecScrub == InitScrub /\ [][NextScrub]_vars

\* ================================================== runner: Logger._log
\* runner/logger.py.  The module's scrubber is Scrubber(), level "basic".

ScrubberLevel == "basic"

\* safe_kwargs, as the loop of _log builds it
SafeKwargs(kwargs) ==
  [key \in DOMAIN kwargs |->
     LET value == kwargs[key] IN
     IF value.type = "str"
     THEN [value EXCEPT !.text = scrub_text(ScrubberLevel, @)]
     ELSE IF value.type = "dict"
     THEN [value EXCEPT !.entries = scrub_dict(ScrubberLevel, @)]
     ELSE value]

\* one call of _log writes its line
log_written ==
  /\ lg.pc = "called"
  /\ lg' = [lg EXCEPT
              !.pc = "written",
              !.safe_message = scrub_text(ScrubberLevel, lg.message),
              !.safe_kwargs = SafeKwargs(lg.kwargs)]
  /\ UNCHANGED logRest

NextLog == log_written

InitLog ==
  /\ Constructed({0})
  /\ ProberEntered
  /\ FetchEntered
  /\ ReaderEntered(<<>>, FALSE)
  /\ MergeCalled(EmptyMap, TRUE)
  /\ BufferConstructed(0)
  /\ RunnerIdle
  /\ LimitsCalled(NoLimitArgs, "linux")
  /\ ScrubCalled("basic", EmptyMap)
  /\ TextCalled("basic", <<>>)
  /\ AsyncCalled("function", FALSE, NotEnded)
  /\ \E message \in Strings, kwargs \in DataMaps : LogCalled(message, kwargs)

SpecLog == InitLog /\ [][NextLog]_vars

\* ===================================================== runner: run_async
\* runner/run.py, run_async, step by step.

\* What the argument of run_async is.
AsyncArgs == {"function", "coroutine function", "coroutine"}

\* Exception types an execution may raise; the last two are not Exception
\* subclasses.
BodyExceptions ==
  {"ValueError", "RuntimeError", "NotImplementedError", "KeyboardInterrupt",
   "SystemExit"}

\* What one execution of the argument does.
Bodies ==
  {Ends("returns", "value", "v1"), Ends("returns", "value", "v2")}
    \cup {Ends("raises", e, "own") : e \in BodyExceptions}

\* isinstance(e, RuntimeError)
IsRuntimeError(e) ==
  e.kind = "raises" /\ e.type \in {"RuntimeError", "NotImplementedError"}

\* The RuntimeError of asyncio.run when a loop runs in the calling thread.
LoopIsRunningError == Ends("raises", "RuntimeError", "asyncio.run")

\* inspect.iscoroutinefunction / inspect.iscoroutine: a plain callable is
\* called directly and its outcome is run_async's
called_directly ==
  /\ ra.pc = "called"
  /\ ra.arg = "function"
  /\ ra' = [ra EXCEPT !.pc = "done", !.starts = @ + 1,
                      !.where = "direct", !.outcome = ra.body]
  /\ UNCHANGED asyncRest

\* asyncio.get_running_loop() inside the try block
get_running_loop ==
  /\ ra.pc = "called"
  /\ ra.arg # "function"
  /\ ra' = [ra EXCEPT !.pc = IF ra.loop_running THEN "submitted"
                             ELSE "except"]
  /\ UNCHANGED asyncRest

\* executor.submit(asyncio.run, coro): the worker thread runs the coroutine
worker_runs ==
  /\ ra.pc = "submitted"
  /\ ra' = [ra EXCEPT !.pc = "joining", !.starts = @ + 1,
                      !.where = "thread", !.future = ra.body]
  /\ UNCHANGED asyncRest

\* return future.result(), still inside the try block
future_result ==
  /\ ra.pc = "joining"
  /\ ra' = IF IsRuntimeError(ra.future)
           THEN [ra EXCEPT !.pc = "except"]
           ELSE [ra EXCEPT !.pc = "done", !.outcome = ra.future]
  /\ UNCHANGED asyncRest

\* except RuntimeError: return asyncio.run(coro)
except_runs ==
  /\ ra.pc = "except"
  /\ ra' = IF ra.loop_running
           THEN [ra EXCEPT !.pc = "done", !.outcome = LoopIsRunningError]
           ELSE [ra EXCEPT !.pc = "done", !.starts = @ + 1,
                           !.where = "new loop", !.outcome = ra.body]
  /\ UNCHANGED asyncRest

NextAsync ==
  \/ called_directly
  \/ get_running_loop
  \/ worker_runs
  \/ future_result
  \/ except_runs

InitAsync ==
  /\ Constructed({0})
  /\ ProberEntered
  /\ FetchEntered
  /\ ReaderEntered(<<>>, FALSE)
  /\ MergeCalled(EmptyMap, TRUE)
  /\ BufferConstructed(0)
  /\ RunnerIdle
  /\ LimitsCalled(NoLimitArgs, "linux")
  /\ ScrubCalled("basic", EmptyMap)
  /\ TextCalled("basic", <<>>)
  /\ LogCalled(<<>>, EmptyMap)
  /\ \E arg \in AsyncArgs, loop_running \in BOOLEAN, body \in Bodies :
       AsyncCalled(arg, loop_running, body)

SpecAsync == InitAsync /\ [][NextAsync]_vars

\* =================================================================== claims
InitializeCount(q) == Cardinality({i \in 1..Len(q) : q[i].method = "initialize"})

Last(q) == q[Len(q)]

AllTransportBefore(q, n) == \A i \in 1..(n - 1) : q[i] = "transport"

\* C1: when invocations run concurrently on one fresh Client, no invocation
\* starts a handshake while another one's initialize is in flight, and the
\* session is created at most once.
C1_SingleHandshake ==
  /\ Cardinality({t \in Tasks : pc[t] = "await_init"}) <= 1
  /\ nInit <= 1

\* C2: with invocations made one at a time, the transport is resolved at
\* most once and the handshake succeeds at most once; once a stage has
\* succeeded no step probes or sends initialize again, and the cached
\* transport and session never change, whatever hint or aclose() follows.
C2_Memoized ==
  [][ /\ nResolved' <= 1
      /\ nInit' <= 1
      /\ (transport # NoneT =>
            /\ transport' = transport
            /\ probes' = probes
            /\ nResolved' = nResolved)
      /\ (init.set =>
            /\ init' = init
            /\ nInit' = nInit
            /\ InitializeCount(sent') = InitializeCount(sent)) ]_vars

\* C2 witness: after a successful handshake and an aclose(), a second
\* ensure_ready with a hint other than the cached transport has returned
\* without sending anything.
C2_Witness ==
  /\ init.set
  /\ ~http
  /\ started = 2
  /\ op[1] = "ensure_ready"
  /\ pc[1] = "done"
  /\ hint[1] \notin {"auto", transport}
  /\ outcome[1].kind = "returned"
  /\ InitializeCount(sent) = 1

\* C3: every tools/call request carries an Mcp-Session-Id header, whose value
\* is the session identifier fixed at handshake time.
C3_SessionOnEveryCall ==
  \A i \in 1..Len(sent) :
    sent[i].method = "tools/call" =>
      /\ sent[i].session # NoSession
      /\ sent[i].session = stored.session

\* C4: the JSON-RPC ids of the requests a Client sends are strictly
\* increasing in sending order.
C4_IdsStrictlyIncrease ==
  \A i, j \in 1..Len(sent) : i < j => sent[i].id < sent[j].id

\* C5: a tools/call response with a JSON-RPC error field ends the call at
\* once with JSONRPCError carrying the error's code, message and data: it is
\* the last response of the invocation, no request follows it and no delay
\* is waited after it (one request and no delay when it answers the first).
C5_RpcErrorNotRetried ==
  \A t \in Tasks :
    \A i \in 1..Len(hist[t]) :
      hist[t][i] = "rpcerr" =>
        /\ i = Len(hist[t])
        /\ pc[t] = "done"
        /\ outcome[t].kind = "raised"
        /\ outcome[t].exc = "JSONRPCError"
        /\ ("code" \in lastResp[t].rpc.has => outcome[t].code = lastResp[t].rpc.code)
        /\ ("message" \in lastResp[t].rpc.has =>
              outcome[t].message = lastResp[t].rpc.message)
        /\ ("data" \in lastResp[t].rpc.has => outcome[t].data = lastResp[t].rpc.data)
        /\ callReqs[t] = i
        /\ Len(waits[t]) = i - 1
        /\ (i = 1 => callReqs[t] = 1 /\ waits[t] = <<>>)

\* C5 witness: with retries configured, the first answer was a JSON-RPC
\* error and the call has ended.
C5_Witness ==
  /\ retries = MaxRetries
  /\ hist[1] = <<"rpcerr">>
  /\ pc[1] = "done"
  /\ outcome[1].exc = "JSONRPCError"
  /\ outcome[1].code = -32602

\* C6: when the first k attempts fail with a transport-layer error and
\* attempt k+1 succeeds, call_tool returns that attempt's result after
\* exactly k+1 requests, having waited 0.3 * 2^(i-1) before retry i.
C6_RetryThenSuccess ==
  \A t \in Tasks :
    ( /\ Len(hist[t]) > 0
      /\ Last(hist[t]) = "result"
      /\ AllTransportBefore(hist[t], Len(hist[t])) ) =>
        /\ pc[t] = "done"
        /\ outcome[t] = Returned(lastResp[t].value)
        /\ Len(hist[t]) - 1 <= retries
        /\ callReqs[t] = Len(hist[t])
        /\ Len(waits[t]) = Len(hist[t]) - 1
        /\ \A i \in 1..Len(waits[t]) : waits[t][i] = 3 * 2^(i - 1)
        /\ (Len(hist[t]) = 3 => waits[t][1] + waits[t][2] = 3 + 6)

\* C6 witness: two transport failures, then a result.
C6_Witness ==
  /\ hist[1] = <<"transport", "transport", "result">>
  /\ pc[1] = "done"
  /\ outcome[1].kind = "returned"
  /\ waits[1] = <<3, 6>>

\* C7: a call_tool with N retries sends at most N+1 tools/call requests; when
\* all N+1 attempts fail with transport errors it raises ToolCallError whose
\* cause is the last attempt's error, and no delay follows the last failure.
C7_RetriesExhausted ==
  \A t \in Tasks :
    /\ callReqs[t] <= retries + 1
    /\ ( /\ Len(hist[t]) = retries + 1
         /\ AllTransportBefore(hist[t], retries + 2) ) =>
           /\ pc[t] = "done"
           /\ outcome[t].kind = "raised"
           /\ outcome[t].exc = "ToolCallError"
           /\ outcome[t].cause = lastResp[t].err
           /\ callReqs[t] = retries + 1
           /\ Len(waits[t]) = retries

\* C7 witness: every attempt of a call with the largest retry count failed.
C7_Witness ==
  /\ retries = MaxRetries
  /\ Len(hist[1]) = MaxRetries + 1
  /\ AllTransportBefore(hist[1], MaxRetries + 2)
  /\ outcome[1].exc = "ToolCallError"

C10_SessionOnlyAfterHandshake ==
  \A i \in 1..Len(sent) :
    /\ sent[i].method = "initialize" => sent[i].session = NoSession
    /\ ( /\ i > 1
         /\ sent[i - 1].method = "initialize"
         /\ sent[i].method # "initialize" ) => sent[i].session # NoSession

\* C11: the mcp-protocol-version header of every initialize request is the
\* client's preferred version; every tools/call carries the cached version,
\* and the cached version is only ever written on a successful initialize
\* response, to that response's protocolVersion, or to the client's preferred
\* version when the response has none.
C11_NegotiatedVersionHeader ==
  [][/\ Len(sent') > Len(sent) =>
          LET q == Last(sent') IN
          /\ q.method = "initialize" => q.version = MCP_PROTOCOL_VERSION
          /\ q.method = "tools/call" =>
                /\ init'.set
                /\ q.version = init'.protocol_version
     /\ init' # init =>
          /\ initResp'[1].kind \in {"result", "neither"}
          /\ init'.protocol_version =
                IF initResp'[1].version = Absent
                THEN MCP_PROTOCOL_VERSION
                ELSE initResp'[1].version]_vars

\* A tools/call went out with a version the server chose, after an
\* initialize that carried the client's preferred version.
C11_Witness ==
  /\ \E i \in 1..Len(sent) :
       /\ sent[i].method = "tools/call"
       /\ sent[i].version = "2024-11-05"
       /\ \E j \in 1..(i - 1) :
            sent[j].method = "initialize" /\ sent[j].version = MCP_PROTOCOL_VERSION

\* The outcome recorded for the probe request `req`, NotSent if it was not made.
NotSent == [kind |-> "none", status |-> 0, sse |-> FALSE]

Out(req) ==
  IF \E i \in 1..Len(det.outs) : det.outs[i].req = req
  THEN det.outs[CHOOSE i \in 1..Len(det.outs) : det.outs[i].req = req].out
  ELSE NotSent

Is200EventStream(o) == o.kind = "resp" /\ o.status = 200 /\ o.sse

Step1Matches ==
  \/ Is200EventStream(Out("head_mcp"))
  \/ /\ Out("head_mcp").kind = "resp"
     /\ Out("head_mcp").status = 405
     /\ Is200EventStream(Out("post_probe"))

Step2Matches ==
  \/ Is200EventStream(Out("head_sse"))
  \/ /\ Out("head_sse").kind = "resp"
     /\ Out("head_sse").status \in {405, 501}
     /\ Is200EventStream(Out("get_sse"))

Step3Matches ==
  /\ Out("post").kind = "resp"
  /\ Out("post").status \in {200, 400, 401, 403, 415, 422}

ProbeOrder == <<"head_mcp", "post_probe", "head_sse", "get_sse", "post">>

Position(req) == CHOOSE k \in 1..5 : ProbeOrder[k] = req

\* C12: when detect_transport has returned, its result is the label of the
\* first of the three steps, in the fixed order, whose success condition
\* holds on the outcomes of the requests, and unknown if none holds; the
\* requests are made in the fixed order, each at most once; the follow-up
\* request of a step is made exactly after HEAD 405 (step 1) and HEAD 405/501
\* (step 2); a step that does not match, by a response or by an error, is
\* followed by the next step.  The result is also the one the Client's
\* one-shot form of the prober computes from the same outcomes.
C12_FirstMatchingStep ==
  /\ \A i, j \in 1..Len(det.outs) :
       i < j => Position(det.outs[i].req) < Position(det.outs[j].req)
  /\ det.pc = "done" =>
       /\ det.result = IF Step1Matches THEN "streamable-http"
                       ELSE IF Step2Matches THEN "sse"
                       ELSE IF Step3Matches THEN "http-post"
                       ELSE "unknown"
       /\ Out("head_mcp") # NotSent
       /\ Out("post_probe") # NotSent <=>
            Out("head_mcp").kind = "resp" /\ Out("head_mcp").status = 405
       /\ Out("head_sse") # NotSent <=> ~Step1Matches
       /\ Out("get_sse") # NotSent <=>
            /\ Out("head_sse").kind = "resp"
            /\ Out("head_sse").status \in {405, 501}
       /\ Out("post") # NotSent <=> ~Step1Matches /\ ~Step2Matches
       /\ det.result =
            detect_transport(
              [headMcp |-> IF Out("head_mcp") = NotSent THEN NetErr ELSE Out("head_mcp"),
               postProbe |-> IF Out("post_probe") = NotSent THEN NetErr ELSE Out("post_probe"),
               headSse |-> IF Out("head_sse") = NotSent THEN NetErr ELSE Out("head_sse"),
               getSse |-> IF Out("get_sse") = NotSent THEN NetErr ELSE Out("get_sse"),
               post |-> IF Out("post") = NotSent THEN NetErr ELSE Out("post")])

\* Step 1 timed out in its follow-up POST, step 2 was refused the connection,
\* and step 3 matched on a 401.
C12_Witness ==
  /\ det.pc = "done"
  /\ det.result = "http-post"
  /\ Out("head_mcp") = Resp(405, FALSE)
  /\ Out("post_probe") = TimedOut
  /\ Out("head_sse") = NetErr
  /\ Out("post") = Resp(401, TRUE)

\* C13: detect_transport makes at most five requests, is never stuck before
\* its return, ends only by returning one of the four labels, whatever the
\* requests answer or fail with, and returns unknown when every request it
\* makes fails without a response.
C13_NeverRaisesNeverHangs ==
  /\ Len(det.outs) <= 5
  /\ det.pc # "done" => det.result = "none" /\ ENABLED NextDetect
  /\ det.pc = "done" =>
       /\ det.result \in {"streamable-http", "sse", "http-post", "unknown"}
       /\ (\A i \in 1..Len(det.outs) : det.outs[i].out.kind # "resp")
            => det.result = "unknown"

\* Every request failed, by a timeout and by a refused connection, and the
\* prober returned unknown after trying all three steps.
C13_Witness ==
  /\ det.pc = "done"
  /\ det.result = "unknown"
  /\ Len(det.outs) = 3
  /\ \A i \in 1..3 : det.outs[i].out.kind # "resp"
  /\ \E i, j \in 1..3 : det.outs[i].out = TimedOut /\ det.outs[j].out = NetErr

FailedAttempts(c) ==
  {i \in 1..Len(fs.attempts) : fs.attempts[i].cand = c /\ fs.attempts[i].how # "ok"}

AttemptsOf(c) == {i \in 1..Len(fs.attempts) : fs.attempts[i].cand = c}

PostPathEntered == Len(fs.postReqs) > 0

\* C14: when the transport resolved to something other than http-post, each
\* of the two streaming candidates is attempted at most once, the first
\* attempt is the resolved transport if it is a streaming one and
\* streamable-http otherwise, and the POST path is entered only after both
\* a streamable-http attempt and an sse attempt have failed.
C14_BothStreamingBeforePost ==
  fs.detected \notin {NoneT, "http-post"} =>
    /\ \A c \in {"streamable-http", "sse"} : Cardinality(AttemptsOf(c)) <= 1
    /\ Len(fs.attempts) > 0 =>
         fs.attempts[1].cand = IF fs.detected = "sse" THEN "sse" ELSE "streamable-http"
    /\ PostPathEntered =>
         /\ FailedAttempts("streamable-http") # {}
         /\ FailedAttempts("sse") # {}

C16_NormalizedShape ==
  fs.outcome.kind = "returned" =>
    \A i \in 1..Len(fs.returned.tools) :
      LET t == fs.returned.tools[i] IN
      /\ t.name # Absent
      /\ t.description \notin {Absent, NoneValue}
      /\ t.input_schema.present
      /\ t.input_schema.properties # Absent
      /\ t.input_schema.required # Absent
      /\ t.input_schema.type # Absent

\* C17: on the POST path tools/list is the second request, after initialize,
\* and is sent only when the initialize response has arrived; its version
\* header is that response's protocolVersion, or the client's version when
\* the response has none; its session header is that response's session id,
\* or else the one identifier minted by this run.
C17_ListAfterInitialize ==
  /\ Len(fs.postReqs) <= 2
  /\ \A i \in 1..Len(fs.postReqs) :
       fs.postReqs[i].method = "tools/list" =>
         /\ i = 2
         /\ fs.postReqs[1].method = "initialize"
         /\ fs.initResp.kind \in {"result", "neither", "rpcerr"}
         /\ fs.postReqs[i].version =
              IF fs.initResp.kind = "result" /\ fs.initResp.version # Absent
              THEN fs.initResp.version
              ELSE MCP_PROTOCOL_VERSION
         /\ IF fs.initResp.session # NoSession
            THEN fs.postReqs[i].session = fs.initResp.session /\ fs.minted = 0
            ELSE fs.postReqs[i].session = Minted(1) /\ fs.minted = 1

\* tools/list went out with the version the server chose and a minted
\* session id, after an initialize that carried neither.
C17_Witness ==
  /\ Len(fs.postReqs) = 2
  /\ fs.postReqs[1] = FetchInitializeRequest
  /\ fs.postReqs[2].method = "tools/list"
  /\ fs.postReqs[2].version = "2024-11-05"
  /\ fs.postReqs[2].session = Minted(1)

HasJson(f) == f \in {"data_a", "data_b", "event_data_b"}

JsonOf(f) == IF f = "data_a" THEN <<"a">> ELSE <<"b">>

NoBlankIn(q) == \A i \in 1..(Len(q) - 1) : ~(q[i] = "n" /\ q[i + 1] = "n")

\* C18: when the stream holds at least one blank-line-terminated frame with
\* a data line carrying JSON, read_first_sse_event returns the parsed JSON of
\* the first such frame, however the stream is cut into chunks, also when
\* earlier events have no data line.
C18_FirstDataFrame ==
  (sse.pc = "done" /\ \E i \in 1..Len(sse.frames) : HasJson(sse.frames[i])) =>
    LET i == CHOOSE i \in 1..Len(sse.frames) :
               /\ HasJson(sse.frames[i])
               /\ \A j \in 1..(i - 1) : ~HasJson(sse.frames[j]) IN
    sse.result = [kind |-> "json", value |-> JsonOf(sse.frames[i])]

\* C19: every chunk is requested while the text received so far holds no
\* blank line; as soon as the received text holds one, the function has
\* ended, whatever the stream would deliver afterwards.
C19_StopsAtFirstEvent ==
  /\ NoBlankIn(SubSeq(Body, 1, sse.prev))
  /\ ~NoBlankIn(SubSeq(Body, 1, sse.pos)) => sse.pc = "done"
  /\ sse.pc = "reading" => sse.result = NoResult

\* The function returned the first event's JSON although the stream had a
\* second event still to deliver.
C19_Witness ==
  /\ sse.pc = "done"
  /\ Len(sse.frames) = 2
  /\ sse.chunks = 2
  /\ sse.pos < Len(Body)
  /\ sse.result = [kind |-> "json", value |-> <<"a">>]

\* C20: called with no map, or with a map that has no Accept entry, the
\* function returns a map whose Accept is "application/json,
\* text/event-stream", which holds every entry of the argument with its
\* value and nothing else; the argument is the same after the call.
C20_AcceptAddedOthersKept ==
  (hd.pc = "returned" /\ (hd.none \/ "Accept" \notin DOMAIN hd.arg)) =>
    /\ "Accept" \in DOMAIN hd.result
    /\ hd.result["Accept"] = <<"application/json", " text/event-stream">>
    /\ DOMAIN hd.result = DOMAIN hd.arg \cup {"Accept"}
    /\ \A k \in DOMAIN hd.arg : hd.result[k] = hd.arg[k]
    /\ hd.after = hd.arg

\* The call returned for a map that held two other headers and no Accept.
C20_Witness ==
  /\ hd.pc = "returned"
  /\ ~hd.none
  /\ DOMAIN hd.arg = {"Authorization", "X-Trace"}
  /\ hd.result["Authorization"] = <<"Bearer token">>
  /\ "Accept" \in DOMAIN hd.result

AcceptNames == {"Accept", "accept"}

\* The media types a header value lists, compared without case and blanks.
MediaTypes(v) == {Lower(Strip(v[i])) : i \in 1..Len(v)} \ {""}

Offered(m) == UNION {MediaTypes(m[k]) : k \in AcceptNames \cap DOMAIN m}

\* C21: for a map that has an Accept entry under some letter case, the
\* returned map offers application/json and text/event-stream, still offers
\* every media type the caller listed, and holds one Accept entry only.
C21_MergedWithCallerAccept ==
  (hd.pc = "returned" /\ ~hd.none /\ AcceptNames \cap DOMAIN hd.arg # {}) =>
    /\ {"application/json", "text/event-stream"} \subseteq Offered(hd.result)
    /\ Offered(hd.arg) \subseteq Offered(hd.result)
    /\ Cardinality(AcceptNames \cap DOMAIN hd.result) = 1

\* The characters of s before its first marker (all of s without one).
RECURSIVE BeforeMarker(_)
BeforeMarker(s) ==
  IF s = <<>> \/ Head(s) = Marker THEN <<>>
  ELSE <<Head(s)>> \o BeforeMarker(Tail(s))

MarkerCount(s) == Cardinality({i \in 1..Len(s) : s[i] = Marker})

Min(a, b) == IF a < b THEN a ELSE b

\* C22: after any sequence of writes, what getvalue() holds before the
\* truncation marker is the first min(total written, max_size) characters
\* of the concatenated writes, size never exceeds max_size, and a write made
\* when size has reached max_size returns 0 and leaves getvalue() as it was.
C22_BoundedPrefix ==
  /\ [](/\ BeforeMarker(getvalue) =
             SubSeq(tb.written, 1, Min(Len(tb.written), tb.max_size))
        /\ tb.size <= tb.max_size)
  /\ [][(tb.size >= tb.max_size /\ tb'.writes = tb.writes + 1) =>
          (getvalue' = getvalue /\ tb'.returned = 0)]_vars

\* Witness for C22: the buffer was truncated and a later, non-empty write
\* was dropped.
C22_Witness ==
  /\ MarkerCount(getvalue) = 1
  /\ tb.writes >= 2
  /\ tb.text # <<>>
  /\ tb.returned = 0

\* C23: whenever at least one written character has been discarded,
\* getvalue() ends with the truncation marker and holds it exactly once.
C23_MarkerWheneverDiscarded ==
  Len(tb.written) > tb.max_size =>
    /\ getvalue # <<>>
    /\ getvalue[Len(getvalue)] = Marker
    /\ MarkerCount(getvalue) = 1

Statuses == {"success", "error", "interrupted"}

\* The user code was executed and the runner process has exited.
RanAndExited == rn.pc = "exited" /\ rn.executed

\* C24: the runner's exit code is determined by the status of the result
\* and is one of 0, 1, 130: success gives 0, error gives 1, interrupted
\* gives 130.
C24_ExitCodeFromStatus ==
  RanAndExited =>
    /\ rn.exit_code \in {0, 1, 130}
    /\ rn.result.present
    /\ rn.result.status = "success" <=> rn.exit_code = 0
    /\ rn.result.status = "error" <=> rn.exit_code = 1
    /\ rn.result.status = "interrupted" <=> rn.exit_code = 130

\* C25: however the user code ends, run_agent_code returns a result with a
\* status in {success, error, interrupted}, the captured stdout and stderr
\* and a usage snapshot, and raises nothing.
C25_AlwaysReturnsResult ==
  rn.pc \in {"ended", "exited"} /\ rn.executed =>
    /\ rn.result.present
    /\ rn.result.status \in Statuses
    /\ rn.result.usage
    /\ rn.raised = "none"

\* C26: in every result run_agent_code returns, stdout and stderr are no
\* longer than the capture bound plus the truncation marker.
C26_ResultTextsBounded ==
  rn.result.present =>
    /\ rn.result.stdout.len <= CaptureBound + MarkerLen
    /\ rn.result.stderr.len <= CaptureBound + MarkerLen

\* C27: the CPU and address-space limits applied are the ones the runner
\* was invoked with: cpu_seconds, and memory_mb * 1024 * 1024 bytes.
C27_LimitsAsInvoked ==
  rn.limits.applied =>
    /\ rn.limits.cpu = rn.args.cpu_seconds
    /\ rn.limits.as = rn.args.memory_mb * 1024 * 1024

\* C28: for every combination of disable_network, seccomp and firejail
\* forwarded by the run command, the runner accepts the command line,
\* executes the user code with the network guard as requested, and exits
\* with the code of its outcome.
C28_EveryLayerCombinationRuns ==
  rn.pc = "exited" =>
    /\ rn.executed
    /\ rn.network_disabled = rn.opts.disable_network
    /\ rn.exit_code # ArgparseErrorCode

\* C29: no stdout or stderr text that the runner returns or prints holds
\* an e-mail, SSN or card-number pattern written by the user code.
C29_OutputScrubbed ==
  /\ rn.result.present => ~rn.result.stdout.pii /\ ~rn.result.stderr.pii
  /\ rn.printed.present => ~rn.printed.stdout.pii /\ ~rn.printed.stderr.pii

\* C30: in the map scrub_dict returns, at either level, every key whose
\* lower-cased name contains password, token, secret, key or auth holds
\* "[REDACTED]" whatever its value was, and every other string value holds
\* its scrubbed text.
C30_SensitiveKeysRedacted ==
  sd.pc = "returned" =>
    /\ DOMAIN sd.result = DOMAIN sd.arg
    /\ \A key \in DOMAIN sd.arg :
         IF Sensitive(key) THEN sd.result[key] = Redacted
         ELSE sd.arg[key].type = "str" =>
                sd.result[key] =
                  Leaf("str", scrub_text(sd.level, sd.arg[key].text))

\* C31: what scrub_dict returns for a map or a list that is an item of a
\* list is what it returns for them at the top level: the map has been
\* given to scrub_dict, the strings of the list have been scrubbed.
C31_NestedInListsScrubbed ==
  sd.pc = "returned" =>
    \A key \in DOMAIN sd.arg :
      sd.arg[key].type = "list" =>
        \A i \in DOMAIN sd.arg[key].items :
          LET item == sd.arg[key].items[i]
              got == sd.result[key].items[i]
          IN  /\ item.type = "dict" =>
                   got = DictValue(scrub_dict(sd.level, item.entries))
              /\ item.type = "list" =>
                   got = ListValue(ScrubItems(sd.level, item.items))

\* The redaction token of a kind of literal.
TokenOf(kind) ==
  CASE kind = "email" -> "[EMAIL]"
    [] kind = "ssn" -> "[SSN]"
    [] kind = "card" -> "[CREDIT_CARD]"
    [] kind = "phone" -> "[PHONE]"
    [] OTHER -> "[PRIVATE_IP]"

RedactedAt(level) ==
  IF level = "strict" THEN {"email", "ssn", "card", "phone", "private_ip"}
  ELSE {"email", "ssn", "card"}

\* C32: at basic level e-mail addresses, SSNs and card numbers are
\* replaced by their tokens and phone numbers and private-IP literals are
\* left as they are; at strict level phone numbers and private-IP literals
\* are replaced by their tokens as well.  Everything else stays.
C32_LevelsNested ==
  tx.pc = "returned" =>
    tx.result =
      TextOf([i \in DOMAIN tx.parts |->
                IF tx.parts[i].kind \in RedactedAt(tx.level)
                THEN [tx.parts[i] EXCEPT
                        !.tokens = <<TokenOf(tx.parts[i].kind)>>]
                ELSE tx.parts[i]])

Printed(line) == \E i \in DOMAIN lm.printed : lm.printed[i] = line

\* The limits apply_limits has set.
LimitsSet == {l.resource : l \in lm.set}

\* C33: apply_limits never raises and never ends without a line printed:
\* on a platform other than linux, or when one of the four limits was not
\* set, it has printed a warning when it returns, and it prints that the
\* limits were applied only when all four were set.
C33_WarnsNeverRaises ==
  /\ lm.pc # "raised"
  /\ lm.raised = "none"
  /\ Printed("applied") => LimitsSet = AllResources
  /\ lm.pc = "returned" =>
       /\ lm.printed # <<>>
       /\ lm.platform # "linux" => Printed("not_supported")
       /\ (lm.platform = "linux" /\ LimitsSet # AllResources) =>
            Printed("could_not_apply")

\* Witness for C33: the second limit could not be set with a ValueError;
\* apply_limits has returned after a warning.
C33_Witness ==
  /\ lm.pc = "returned"
  /\ LimitsSet = {"RLIMIT_CPU"}
  /\ lm.error = "ValueError"
  /\ Printed("could_not_apply")

LibraryErrors ==
  {"JSONRPCError", "ToolCallError", "TransportProbeError",
   "VersionNegotiationError"}

\* C35: a call_tool invocation that has sent its tools/call ends by
\* returning or by raising one of the library's own errors, whatever the
\* answer was (an HTTP error status and a body that is not JSON included).
C35_OnlyLibraryErrors ==
  \A t \in Tasks :
    (op[t] = "call_tool" /\ pc[t] = "done" /\ callReqs[t] >= 1) =>
      \/ outcome[t].kind = "returned"
      \/ outcome[t].kind = "raised" /\ outcome[t].exc \in LibraryErrors

ListSent == \E i \in 1..Len(fs.postReqs) : fs.postReqs[i].method = "tools/list"

\* C36: on every initialize response the POST path of the schema fetcher
\* goes on exactly when Client._initialize succeeds on it, and then with the
\* version and the session identifier choice Client._initialize derives; in
\* particular no tools/list is sent after a JSON-RPC error.
C36_PostHandshakeAsClient ==
  fs.initResp # NoFetchResp =>
    /\ ListSent <=> InitializeSucceeds(fs.initResp)
    /\ ListSent =>
         /\ fs.postReqs[2].version = NegotiatedVersion(fs.initResp)
         /\ fs.postReqs[2].session = SessionHeader(fs.initResp, fs.minted)

\* A value holds a string that scrub_text would change, at any depth.
RECURSIVE HoldsPattern(_)
HoldsPattern(v) ==
  \/ v.type = "str" /\ scrub_text(ScrubberLevel, v.text) # v.text
  \/ \E key \in DOMAIN v.entries : HoldsPattern(v.entries[key])
  \/ \E i \in DOMAIN v.items : HoldsPattern(v.items[i])

\* A map holds a credential-named key with something else than
\* "[REDACTED]", at any depth.
RECURSIVE HoldsCredential(_)
HoldsCredential(m) ==
  \E key \in DOMAIN m :
    \/ Sensitive(key) /\ m[key] # Redacted
    \/ HoldsCredential(m[key].entries)
    \/ \E i \in DOMAIN m[key].items : HoldsCredential(m[key].items[i].entries)

\* C37: in the line _log writes, the message and every keyword value, at
\* any depth, hold no e-mail, SSN or card pattern, and every
\* credential-named key holds "[REDACTED]".
C37_LogLineScrubbed ==
  lg.pc = "written" =>
    /\ lg.safe_message = scrub_text(ScrubberLevel, lg.message)
    /\ \A key \in DOMAIN lg.safe_kwargs : ~HoldsPattern(lg.safe_kwargs[key])
    /\ ~HoldsCredential(lg.safe_kwargs)

\* C38: run_async executes its argument exactly once and its caller gets
\* exactly that execution's outcome, the very exception included: a plain
\* callable is called directly, a coroutine is run on a worker thread when
\* a loop is running in the caller's thread and on a new loop otherwise.
C38_RunOnceSameOutcome ==
  ra.pc = "done" =>
    /\ ra.starts = 1
    /\ ra.outcome = ra.body
    /\ ra.where =
         IF ra.arg = "function" THEN "direct"
         ELSE IF ra.loop_running THEN "thread"
         ELSE "new loop"

\* C39: on the streaming path of fetch_schema every operation on a session
\* (initialize, list_tools) is awaited while the connection opened for that
\* session is still open; a session is never used after its connection has
\* been closed.
C39_SessionUsedWhileOpen ==
  fs.pc \in {"session_init", "list_tools"} => fs.conn = "open"

\* C40: Client._init is assigned only on an initialize response that carries
\* a JSON-RPC result, and a call_tool whose last tools/call response carried
\* neither result nor error does not return as a success.
C40_SessionOnlyOnResult ==
  [][/\ init' # init =>
          \E t \in Tasks : /\ initResp'[t] # initResp[t]
                           /\ initResp'[t].kind = "result"
     /\ \A t \in Tasks :
          (pc'[t] = "done" /\ op'[t] = "call_tool"
             /\ lastResp'[t].kind = "neither") =>
            outcome'[t].kind # "returned"]_vars

====
